---- MODULE Spec2Model ----
(***************************************************************************)
(* Model of the Sylius QA automation suite: the authenticated HTTP clients *)
(* (BaseApiClient, AdminClient, ShopClient) and the test scenarios that    *)
(* drive an order through checkout against the platform, which is an       *)
(* opaque HTTP service answering every request nondeterministically.       *)
(***************************************************************************)
EXTENDS Integers, Sequences, FiniteSets, TLC

VARIABLES
    token,      \* BaseApiClient.token of each client instance
    wire,       \* the outbound HTTP requests issued so far, each with the status answered
    result,     \* what the last client call returned or threw
    lastResp,   \* the platform's most recent response (status and text)
    scen,       \* the scenario (test function) being run
    pc,         \* the scenario's position
    outcome,    \* running | passed | failed
    loc,        \* the scenario's local constants (tokenValue, orderData, shipmentId, ...)
    seen        \* shipments[0].id, payments[0].id and the methods of the most recent
                \* response that carried them

vars == <<token, wire, result, lastResp, scen, pc, outcome, loc, seen>>

clientVars == <<token, wire, result, lastResp>>
scenVars == <<scen, pc, outcome, loc, seen>>

----------------------------------------------------------------------------
(* Bounds *)

\* number of client calls (logins and verb calls) explored by SpecClient
MaxCalls == 3

----------------------------------------------------------------------------
(* Values *)

Null == "null"
Undefined == "undefined"
NoData == <<>>
Clients == {"admin", "shop", "shopB", "cleanup"}
Tokens == {"t1", "t2"}

\* response.ok(): status in the range 200-299
ok(status) == status >= 200 /\ status <= 299

\* statuses the platform answers with in the client specification
Statuses == {200, 404}
Texts == {"bodyA", "bodyB"}

----------------------------------------------------------------------------
(* BaseApiClient *)

\* a validateToken that never throws
validateTokenSkipped(tok) == TRUE

\* `if (!this.token) throw`: null and undefined are both falsy
validateToken(tok) == tok \notin {Null, Undefined}

\* headers that carry no bearer token
getHeadersNoBearer(tok, includeContentType) ==
    [Authorization |-> <<"Bearer", Null>>,
     Accept |-> "application/ld+json",
     ContentType |-> IF includeContentType THEN "application/ld+json" ELSE "none"]

getHeaders(tok, includeContentType) ==
    [Authorization |-> <<"Bearer", tok>>,
     Accept |-> "application/ld+json",
     ContentType |-> IF includeContentType THEN "application/ld+json" ELSE "none"]

getPatchHeaders(tok) ==
    [Authorization |-> <<"Bearer", tok>>,
     Accept |-> "application/ld+json",
     ContentType |-> "application/merge-patch+json"]

\* the request each verb hands to the Playwright request context
get(tok, endpoint) ==
    [verb |-> "GET", endpoint |-> endpoint, headers |-> getHeaders(tok, FALSE), data |-> NoData]

post(tok, endpoint, data) ==
    [verb |-> "POST", endpoint |-> endpoint, headers |-> getHeaders(tok, TRUE), data |-> data]

put(tok, endpoint, data) ==
    [verb |-> "PUT", endpoint |-> endpoint, headers |-> getHeaders(tok, TRUE), data |-> data]

patch(tok, endpoint, data) ==
    [verb |-> "PATCH", endpoint |-> endpoint, headers |-> getPatchHeaders(tok), data |-> data]

delete(tok, endpoint) ==
    [verb |-> "DELETE", endpoint |-> endpoint, headers |-> getHeaders(tok, FALSE), data |-> NoData]

\* the token request of login / login_token: no Authorization header
tokenEndpoint(c) == IF c = "admin" THEN <<"/api/v2/admin/administrators/token">>
                    ELSE <<"/api/v2/shop/customers/token">>

loginRequest(c) ==
    [verb |-> "POST", endpoint |-> tokenEndpoint(c),
     headers |-> [Authorization |-> <<"none", Null>>, Accept |-> "none", ContentType |-> "none"],
     data |-> <<"email", "password">>]

NotAuthenticated == [kind |-> "throw", msg |-> "Not authenticated. Please login first.",
                     status |-> 0, text |-> ""]

LoginFailed(c, status, text) ==
    [kind |-> "throw",
     msg |-> IF c = "admin" THEN "Admin login failed" ELSE "Shop login failed",
     status |-> status, text |-> text]

Returned(status, text) == [kind |-> "return", msg |-> "", status |-> status, text |-> text]

Void == [kind |-> "void", msg |-> "", status |-> 0, text |-> ""]

\* the statements of the beforeAll and afterAll hooks
BeforeAllSteps ==
    {"ba_login", "ba_createUser", "ba_variants", "sh_adminLogin",
     "se_adminLogin", "se_createUserA", "se_createUserB"}
AfterAllSteps == {"aa_login", "aa_carts", "aa_user", "aa_products"}

\* where the statement being executed stands: in a hook or in a test body
Phase ==
    IF pc \in BeforeAllSteps THEN "beforeAll"
    ELSE IF pc \in AfterAllSteps THEN "afterAll"
    ELSE "test"

\* one outbound request of client c, answered with `status`; tok is the body.token of
\* the answer (Undefined when the answer carries none); `by` is the hook or test body
\* that sent the request
Sent(c, req, status, tok) ==
    [client |-> c, req |-> req, status |-> status, tok |-> tok, by |-> Phase]

----------------------------------------------------------------------------
(* The clients driven by an arbitrary caller *)

NoBody == [checkoutState |-> Undefined, shipmentId |-> Undefined, paymentId |-> Undefined]

NoLocals ==
    [tokenValue |-> Undefined, orderData |-> NoBody, shippingData |-> NoBody,
     shipmentId |-> Undefined, paymentId |-> Undefined, methods |-> <<>>,
     observed |-> <<>>, orderState |-> Undefined, total |-> 0, attempt |-> 0,
     finalStock |-> -1, onHold |-> -1, adminShipmentId |-> Undefined, accepted |-> FALSE,
     addStatus |-> 0, items |-> <<>>, asserted |-> {},
     item |-> [present |-> {}, quantity |-> 0, unitPrice |-> 0, subtotal |-> 0, total |-> 0],
     userEmail |-> Undefined, userId |-> Undefined, createdCarts |-> <<>>,
     createdProductCodes |-> <<>>, hook |-> "none", next |-> 1, warnings |-> {},
     now |-> 0, names |-> <<>>, at |-> <<>>, variant |-> "derived", calls |-> <<>>,
     finalOrder |-> [present |-> {}, itemsTotal |-> 0, shippingTotal |-> 0, taxTotal |-> 0,
                     orderPromotionTotal |-> 0, total |-> 0]]

NothingSeen == [shipmentId |-> Undefined, paymentId |-> Undefined, methods |-> <<>>]

InitScenIdle ==
    /\ scen = "none"
    /\ pc = "idle"
    /\ outcome = "running"
    /\ loc = NoLocals
    /\ seen = NothingSeen

InitClient ==
    /\ token = [c \in Clients |-> Null]
    /\ wire = <<>>
    /\ result = Void
    /\ lastResp = [status |-> 0, text |-> ""]
    /\ InitScenIdle

\* a login that stores body.token without looking at response.ok()
LoginUnchecked(c) ==
    /\ Len(wire) < MaxCalls
    /\ \E status \in Statuses, text \in Texts, tok \in Tokens \cup {Undefined} :
        /\ wire' = Append(wire, Sent(c, loginRequest(c), status, tok))
        /\ lastResp' = [status |-> status, text |-> text]
        /\ token' = [token EXCEPT ![c] = tok]
        /\ result' = Void
    /\ UNCHANGED scenVars

\* a login that drops the stored token when the token request is refused
LoginClearing(c) ==
    /\ Len(wire) < MaxCalls
    /\ \E status \in Statuses, text \in Texts, tok \in Tokens \cup {Undefined} :
        /\ ~ok(status) => tok = Undefined
        /\ wire' = Append(wire, Sent(c, loginRequest(c), status, tok))
        /\ lastResp' = [status |-> status, text |-> text]
        /\ IF ~ok(status)
           THEN /\ result' = LoginFailed(c, status, text)
                /\ token' = [token EXCEPT ![c] = Null]
           ELSE /\ token' = [token EXCEPT ![c] = tok]
                /\ result' = Void
    /\ UNCHANGED scenVars

\* AdminClient.login / ShopClient.login_token
Login(c) ==
    /\ Len(wire) < MaxCalls
    /\ \E status \in Statuses, text \in Texts, tok \in Tokens \cup {Undefined} :
        /\ ~ok(status) => tok = Undefined
        /\ wire' = Append(wire, Sent(c, loginRequest(c), status, tok))
        /\ lastResp' = [status |-> status, text |-> text]
        /\ IF ~ok(status)
           THEN /\ result' = LoginFailed(c, status, text)
                /\ UNCHANGED token
           ELSE /\ token' = [token EXCEPT ![c] = tok]
                /\ result' = Void
    /\ UNCHANGED scenVars

\* a verb call that sends the request again when the answer is not a success
CallRetrying(c, req) ==
    /\ Len(wire) < MaxCalls
    /\ IF ~validateToken(token[c])
       THEN /\ result' = NotAuthenticated
            /\ UNCHANGED <<wire, lastResp>>
       ELSE \E status \in Statuses, again \in Statuses, text \in Texts :
            /\ wire' = IF ok(status)
                       THEN Append(wire, Sent(c, req, status, Undefined))
                       ELSE wire \o <<Sent(c, req, status, Undefined),
                                      Sent(c, req, again, Undefined)>>
            /\ lastResp' = [status |-> IF ok(status) THEN status ELSE again, text |-> text]
            /\ result' = Returned(lastResp'.status, text)
    /\ UNCHANGED token
    /\ UNCHANGED scenVars

\* a verb call: validateToken(), then exactly one request through the context
Call(c, req) ==
    /\ Len(wire) < MaxCalls
    /\ IF ~validateToken(token[c])
       THEN /\ result' = NotAuthenticated
            /\ UNCHANGED <<wire, lastResp>>
       ELSE \E status \in Statuses, text \in Texts :
            /\ wire' = Append(wire, Sent(c, req, status, Undefined))
            /\ lastResp' = [status |-> status, text |-> text]
            /\ result' = Returned(status, text)
    /\ UNCHANGED token
    /\ UNCHANGED scenVars

Endpoints == {<<"/api/v2/x">>}
Bodies == {<<"payload">>}

Get(c) == \E e \in Endpoints : Call(c, get(token[c], e))
Post(c) == \E e \in Endpoints, d \in Bodies : Call(c, post(token[c], e, d))
Put(c) == \E e \in Endpoints, d \in Bodies : Call(c, put(token[c], e, d))
Patch(c) == \E e \in Endpoints, d \in Bodies : Call(c, patch(token[c], e, d))
Delete(c) == \E e \in Endpoints : Call(c, delete(token[c], e))

NextClient ==
    \E c \in Clients :
        \/ Login(c)
        \/ Get(c)
        \/ Post(c)
        \/ Put(c)
        \/ Patch(c)
        \/ Delete(c)

SpecClient == InitClient /\ [][NextClient]_vars

----------------------------------------------------------------------------
(* The platform as the scenarios see it *)

CheckoutStates == <<"cart", "addressed", "shipping_selected", "payment_selected", "completed">>
CheckoutStateSet == {CheckoutStates[i] : i \in DOMAIN CheckoutStates}

\* statuses the platform answers a scenario's request with: the verb's success status
\* or a refusal
Answers(verb) ==
    {IF verb = "POST" THEN 201 ELSE IF verb = "DELETE" THEN 204 ELSE 200, 422}

ShipmentIds == {"s1", "s2"}
PaymentIds == {"p1", "p2"}

\* what a response body is when the answer is not a success: a JSON error document
\* (every field the test reads is undefined) or text that json() cannot parse
ErrorBodies == {"json", "text"}

\* the sub-resources an order representation names
OrderIds == [shipmentId : ShipmentIds \cup {Undefined}, paymentId : PaymentIds \cup {Undefined}]

\* an order representation: its checkout state and the ids of shipments[0] and
\* payments[0] (Undefined when the list is empty)
OrderBodies ==
    [checkoutState : CheckoutStateSet,
     shipmentId : ShipmentIds \cup {Undefined},
     paymentId : PaymentIds \cup {Undefined}]

\* the hydra:member of a methods collection, by method code
ShippingMethodLists == {<<>>, <<"ups">>, <<"dhl", "ups">>}
PaymentMethodLists ==
    {<<>>, <<"bank_transfer">>, <<"cash_on_delivery">>, <<"bank_transfer", "cash_on_delivery">>}

----------------------------------------------------------------------------
(* Scenario steps *)

At(s, p) == scen = s /\ pc = p /\ outcome = "running"

\* the request goes out through client c and is answered with `status`
Do(c, req, status) ==
    /\ wire' = Append(wire, Sent(c, req, status, Undefined))
    /\ lastResp' = [status |-> status, text |-> "bodyA"]
    /\ result' = Returned(status, "bodyA")
    /\ UNCHANGED token

\* validateToken() threw: nothing goes out
Refused ==
    /\ result' = NotAuthenticated
    /\ UNCHANGED <<wire, lastResp, token>>

\* a failed expect() or an uncaught exception ends the test function
Abort == outcome' = "failed" /\ pc' = "done" /\ UNCHANGED scen

Goto(p) == pc' = p /\ UNCHANGED <<scen, outcome>>

Pass == outcome' = "passed" /\ pc' = "done" /\ UNCHANGED scen

\* the token the platform issues to the session of client c
SessionToken(c) ==
    CASE c = "admin" -> "t1"
      [] c = "shop" -> "t2"
      [] c = "shopB" -> "t3"
      [] OTHER -> "t4"

\* a login whose token ends up in every client
LoginThenShared(c, next) ==
    \E status \in Answers("POST"), tok \in {SessionToken(c), Undefined} :
        /\ ~ok(status) => tok = Undefined
        /\ wire' = Append(wire, Sent(c, loginRequest(c), status, tok))
        /\ lastResp' = [status |-> status, text |-> "bodyA"]
        /\ IF ~ok(status)
           THEN /\ result' = LoginFailed(c, status, "bodyA")
                /\ UNCHANGED token
                /\ Abort
           ELSE /\ token' = [x \in Clients |-> tok]
                /\ result' = Void
                /\ Goto(next)
        /\ UNCHANGED <<loc, seen>>

\* login() / login_token() as a scenario step: throws unless the answer is a success
LoginThen(c, next) ==
    \E status \in Answers("POST"), tok \in {SessionToken(c), Undefined} :
        /\ ~ok(status) => tok = Undefined
        /\ wire' = Append(wire, Sent(c, loginRequest(c), status, tok))
        /\ lastResp' = [status |-> status, text |-> "bodyA"]
        /\ IF ~ok(status)
           THEN /\ result' = LoginFailed(c, status, "bodyA")
                /\ UNCHANGED token
                /\ Abort
           ELSE /\ token' = [token EXCEPT ![c] = tok]
                /\ result' = Void
                /\ Goto(next)
        /\ UNCHANGED <<loc, seen>>

\* a verb call whose response is not looked at: `await client.verb(...)` alone
IgnoredCall(c, req, next) ==
    IF ~validateToken(token[c])
    THEN Refused /\ Abort /\ UNCHANGED <<loc, seen>>
    ELSE \E status \in Answers(req.verb) :
            /\ Do(c, req, status)
            /\ Goto(next)
            /\ UNCHANGED <<loc, seen>>

\* a checked call with its expect() left out
UncheckedCall(c, req, next) == IgnoredCall(c, req, next)

\* a checked call that sends the request once more when the answer is not a success
RetriedCall(c, req, next) ==
    IF ~validateToken(token[c])
    THEN Refused /\ Abort /\ UNCHANGED <<loc, seen>>
    ELSE \E status \in Answers(req.verb), again \in Answers(req.verb) :
            /\ wire' = IF ok(status)
                       THEN Append(wire, Sent(c, req, status, Undefined))
                       ELSE wire \o <<Sent(c, req, status, Undefined),
                                      Sent(c, req, again, Undefined)>>
            /\ lastResp' = [status |-> IF ok(status) THEN status ELSE again,
                            text |-> "bodyA"]
            /\ result' = Returned(lastResp'.status, "bodyA")
            /\ UNCHANGED token
            /\ IF ok(lastResp'.status) THEN Goto(next) ELSE Abort
            /\ UNCHANGED <<loc, seen>>

\* a verb call whose response must be ok(): `expect(resp.ok()).toBeTruthy()`
CheckedCall(c, req, next) ==
    IF ~validateToken(token[c])
    THEN Refused /\ Abort /\ UNCHANGED <<loc, seen>>
    ELSE \E status \in Answers(req.verb) :
            /\ Do(c, req, status)
            /\ IF ok(status) THEN Goto(next) ELSE Abort
            /\ UNCHANGED <<loc, seen>>

OrderPath(tv) == <<"/api/v2/shop/orders", tv>>

\* an expectation that accepts any value
toBeAnything(actual, expected) == TRUE

\* `expect(actual).toBe(expected)`
toBe(actual, expected) == actual = expected

\* `expect(actual).toBeGreaterThan(bound)`
toBeGreaterThan(actual, bound) == actual > bound

\* a response body was parsed and its checkoutState read
Observe(l, body) == [l EXCEPT !.observed = Append(@, body.checkoutState)]

----------------------------------------------------------------------------
(* tests/shop_user_test/check-out.spec.ts *)

CheckoutTests == {"addrShip", "buyNow"}

InCheckout(p) == scen \in CheckoutTests /\ pc = p /\ outcome = "running"

\* beforeAll: adminClient.login()
Checkout_AdminLogin ==
    /\ InCheckout("ba_login")
    /\ LoginThen("admin", "ba_createUser")

\* beforeAll: create the customer, expect ok
Checkout_CreateUser ==
    /\ InCheckout("ba_createUser")
    /\ IF ~validateToken(token["admin"])
       THEN Refused /\ Abort /\ loc' = [loc EXCEPT !.userEmail = "checkout"]
       ELSE \E status \in Answers("POST") :
            /\ Do("admin",
                  post(token["admin"], <<"/api/v2/admin/customers">>, <<"checkout">>), status)
            /\ IF ok(status)
               THEN /\ loc' = [loc EXCEPT !.userEmail = "checkout", !.userId = "U1"]
                    /\ Goto("ba_variants")
               ELSE /\ loc' = [loc EXCEPT !.userEmail = "checkout"]
                    /\ Abort
    /\ UNCHANGED seen

\* beforeAll: look a variant up, expect ok, throw when the collection is empty
Checkout_GetVariant ==
    /\ InCheckout("ba_variants")
    /\ IF ~validateToken(token["admin"])
       THEN Refused /\ Abort
       ELSE \E status \in Answers("GET"), members \in {0, 1} :
            /\ Do("admin", get(token["admin"], <<"/api/v2/admin/product-variants">>), status)
            /\ IF ok(status) /\ members > 0 THEN Goto("login") ELSE Abort
    /\ UNCHANGED <<loc, seen>>

\* Step 1: shopClient.login_token
Checkout_ShopLogin ==
    /\ InCheckout("login")
    /\ LoginThen("shop", "createCart")

\* Step 2: create a cart, expect ok, keep its tokenValue
Checkout_CreateCart ==
    /\ InCheckout("createCart")
    /\ IF ~validateToken(token["shop"])
       THEN Refused /\ Abort /\ UNCHANGED <<loc, seen>>
       ELSE \E status \in Answers("POST") :
            /\ Do("shop", post(token["shop"], <<"/api/v2/shop/orders">>, <<"localeCode">>),
                  status)
            /\ IF ok(status)
               THEN /\ loc' = [loc EXCEPT !.tokenValue = "T1",
                                          !.createdCarts = Append(@, "T1")]
                    /\ seen' = NothingSeen
                    /\ Goto("addItem")
               ELSE Abort /\ UNCHANGED <<loc, seen>>

\* Step 3: add one item, expect ok
Checkout_AddItem ==
    /\ InCheckout("addItem")
    /\ CheckedCall("shop",
                   post(token["shop"], OrderPath(loc.tokenValue) \o <<"items">>,
                        <<"quantity", "1">>),
                   "address")

\* Step 4 of 'Registered customer can add shipping and billing address': PUT the
\* addresses, expect ok, checkoutState 'addressed' and both streets as sent; then
\* shipments[0].id is read (a TypeError without a shipment)
AddrShip_Address ==
    /\ At("addrShip", "address")
    /\ IF ~validateToken(token["shop"])
       THEN Refused /\ Abort /\ UNCHANGED <<loc, seen>>
       ELSE \E status \in Answers("PUT"), body \in OrderBodies, streets \in BOOLEAN :
            /\ Do("shop", put(token["shop"], OrderPath(loc.tokenValue), <<"addresses">>),
                  status)
            /\ IF ~ok(status)
               THEN Abort /\ UNCHANGED <<loc, seen>>
               ELSE /\ seen' = [seen EXCEPT !.shipmentId = body.shipmentId,
                                            !.paymentId = body.paymentId]
                    /\ IF toBe(body.checkoutState, "addressed") /\ streets
                          /\ body.shipmentId # Undefined
                       THEN /\ loc' = [Observe(loc, body) EXCEPT !.orderData = body,
                                                                 !.shipmentId = body.shipmentId]
                            /\ Goto("shipMethods")
                       ELSE /\ loc' = [Observe(loc, body) EXCEPT !.orderData = body]
                            /\ Abort

\* Step 4 of 'User can complete order with payment (Buy Now)'
BuyNow_Address ==
    /\ At("buyNow", "address")
    /\ IF ~validateToken(token["shop"])
       THEN Refused /\ Abort /\ UNCHANGED <<loc, seen>>
       ELSE \E status \in Answers("PUT"), body \in OrderBodies :
            /\ Do("shop", put(token["shop"], OrderPath(loc.tokenValue), <<"addresses">>),
                  status)
            /\ IF ~ok(status)
               THEN Abort /\ UNCHANGED <<loc, seen>>
               ELSE /\ seen' = [seen EXCEPT !.shipmentId = body.shipmentId,
                                            !.paymentId = body.paymentId]
                    /\ IF toBe(body.checkoutState, "addressed") /\ body.shipmentId # Undefined
                       THEN /\ loc' = [Observe(loc, body) EXCEPT !.orderData = body,
                                                                 !.shipmentId = body.shipmentId]
                            /\ Goto("shipMethods")
                       ELSE /\ loc' = [Observe(loc, body) EXCEPT !.orderData = body]
                            /\ Abort

\* Step 5/6: fetch the shipment's eligible methods, expect ok and a non-empty list
Checkout_ShippingMethods ==
    /\ InCheckout("shipMethods")
    /\ IF ~validateToken(token["shop"])
       THEN Refused /\ Abort /\ UNCHANGED <<loc, seen>>
       ELSE \E status \in Answers("GET"), members \in ShippingMethodLists :
            /\ Do("shop",
                  get(token["shop"],
                      OrderPath(loc.tokenValue) \o <<"shipments", loc.shipmentId, "methods">>),
                  status)
            /\ IF ~ok(status)
               THEN Abort /\ UNCHANGED <<loc, seen>>
               ELSE /\ seen' = [seen EXCEPT !.methods = members]
                    /\ IF Len(members) > 0
                       THEN loc' = [loc EXCEPT !.methods = members] /\ Goto("selectShipping")
                       ELSE Abort /\ UNCHANGED loc

SelectShippingRequest ==
    patch(token["shop"], OrderPath(loc.tokenValue) \o <<"shipments", loc.shipmentId>>,
          <<"shippingMethod", loc.methods[1]>>)

\* Step 6 of 'Registered customer ...': select the first method, expect ok,
\* checkoutState 'shipping_selected' and shippingTotal > 0; the test ends here
AddrShip_SelectShipping ==
    /\ At("addrShip", "selectShipping")
    /\ IF ~validateToken(token["shop"])
       THEN Refused /\ Abort /\ UNCHANGED <<loc, seen>>
       ELSE \E status \in Answers("PATCH"), body \in OrderBodies, shippingTotal \in {0, 500} :
            /\ Do("shop", SelectShippingRequest, status)
            /\ IF ~ok(status)
               THEN Abort /\ UNCHANGED <<loc, seen>>
               ELSE /\ seen' = [seen EXCEPT !.shipmentId = body.shipmentId,
                                            !.paymentId = body.paymentId]
                    /\ loc' = [Observe(loc, body) EXCEPT !.shippingData = body]
                    /\ IF /\ toBe(body.checkoutState, "shipping_selected")
                          /\ toBeGreaterThan(shippingTotal, 0)
                       THEN Pass
                       ELSE Abort

\* line 132 read from the address response instead of the shipping response
PaymentIdOfStale(orderData, shippingData) == orderData.paymentId

\* `const paymentId = shippingData.payments[0].id`
PaymentIdOf(orderData, shippingData) == shippingData.paymentId

\* Step 5 of 'User can complete order ...': select the first method, expect ok and
\* checkoutState 'shipping_selected'; then payments[0].id is read
BuyNow_SelectShipping ==
    /\ At("buyNow", "selectShipping")
    /\ IF ~validateToken(token["shop"])
       THEN Refused /\ Abort /\ UNCHANGED <<loc, seen>>
       ELSE \E status \in Answers("PATCH"), body \in OrderBodies :
            /\ Do("shop", SelectShippingRequest, status)
            /\ IF ~ok(status)
               THEN Abort /\ UNCHANGED <<loc, seen>>
               ELSE /\ seen' = [seen EXCEPT !.shipmentId = body.shipmentId,
                                            !.paymentId = body.paymentId]
                    /\ IF /\ toBe(body.checkoutState, "shipping_selected")
                          /\ PaymentIdOf(loc.orderData, body) # Undefined
                       THEN /\ loc' = [Observe(loc, body) EXCEPT
                                            !.shippingData = body,
                                            !.paymentId = PaymentIdOf(loc.orderData, body)]
                            /\ Goto("payMethods")
                       ELSE /\ loc' = [Observe(loc, body) EXCEPT !.shippingData = body]
                            /\ Abort

\* Step 6: fetch the payment's eligible methods, expect ok and a non-empty list
BuyNow_PaymentMethods ==
    /\ At("buyNow", "payMethods")
    /\ IF ~validateToken(token["shop"])
       THEN Refused /\ Abort /\ UNCHANGED <<loc, seen>>
       ELSE \E status \in Answers("GET"), members \in PaymentMethodLists :
            /\ Do("shop",
                  get(token["shop"],
                      OrderPath(loc.tokenValue) \o <<"payments", loc.paymentId, "methods">>),
                  status)
            /\ IF ~ok(status)
               THEN Abort /\ UNCHANGED <<loc, seen>>
               ELSE /\ seen' = [seen EXCEPT !.methods = members]
                    /\ IF Len(members) > 0
                       THEN loc' = [loc EXCEPT !.methods = members] /\ Goto("selectPayment")
                       ELSE Abort /\ UNCHANGED loc

\* `paymentMethods.find(m => m.code === 'cash_on_delivery') || paymentMethods[0]`
SelectedPaymentMethod(members) ==
    IF \E i \in DOMAIN members : members[i] = "cash_on_delivery"
    THEN "cash_on_delivery"
    ELSE members[1]

\* Step 6: select the payment method, expect ok and checkoutState 'payment_selected'
BuyNow_SelectPayment ==
    /\ At("buyNow", "selectPayment")
    /\ IF ~validateToken(token["shop"])
       THEN Refused /\ Abort /\ UNCHANGED <<loc, seen>>
       ELSE \E status \in Answers("PATCH"), checkoutState \in CheckoutStateSet :
            /\ Do("shop",
                  patch(token["shop"],
                        OrderPath(loc.tokenValue) \o <<"payments", loc.paymentId>>,
                        <<"paymentMethod", SelectedPaymentMethod(loc.methods)>>),
                  status)
            /\ UNCHANGED seen
            /\ IF ~ok(status)
               THEN Abort /\ UNCHANGED loc
               ELSE /\ loc' = [loc EXCEPT !.observed = Append(@, checkoutState)]
                    /\ IF toBe(checkoutState, "payment_selected")
                       THEN Goto("complete")
                       ELSE Abort

\* Step 7: complete the order, expect ok, checkoutState 'completed', state 'new' and
\* total > 0
BuyNow_Complete ==
    /\ At("buyNow", "complete")
    /\ IF ~validateToken(token["shop"])
       THEN Refused /\ Abort /\ UNCHANGED <<loc, seen>>
       ELSE \E status \in Answers("PATCH"), checkoutState \in CheckoutStateSet,
               state \in {"cart", "new"}, total \in {0, 100} :
            /\ Do("shop",
                  patch(token["shop"], OrderPath(loc.tokenValue) \o <<"complete">>, <<>>),
                  status)
            /\ UNCHANGED seen
            /\ IF ~ok(status)
               THEN Abort /\ UNCHANGED loc
               ELSE /\ loc' = [loc EXCEPT !.observed = Append(@, checkoutState),
                                          !.orderState = state, !.total = total]
                    /\ IF /\ toBe(checkoutState, "completed")
                          /\ toBe(state, "new")
                          /\ toBeGreaterThan(total, 0)
                       THEN Pass
                       ELSE Abort

NextCheckout ==
    \/ Checkout_AdminLogin
    \/ Checkout_CreateUser
    \/ Checkout_GetVariant
    \/ Checkout_ShopLogin
    \/ Checkout_CreateCart
    \/ Checkout_AddItem
    \/ AddrShip_Address
    \/ BuyNow_Address
    \/ Checkout_ShippingMethods
    \/ AddrShip_SelectShipping
    \/ BuyNow_SelectShipping
    \/ BuyNow_PaymentMethods
    \/ BuyNow_SelectPayment
    \/ BuyNow_Complete

----------------------------------------------------------------------------
(* tests/critical/stock-validation.spec.ts: 'Stock is decremented after successful
   order' *)

\* `for (let attempt = 0; attempt < 5; attempt++)`
MaxAttempts == 5

\* INITIAL_STOCK
InitialStock == 5

VariantPath == <<"/api/v2/admin/product-variants", "V1">>

\* `await resp.json()` of an unchecked GET of the order: the ids it names, Undefined
\* ones when the answer is a JSON error document; not parsed when json() throws
ReadOrder(status, ids, err) ==
    [parsed |-> ok(status) \/ err = "json",
     shipmentId |-> IF ok(status) THEN ids.shipmentId ELSE Undefined,
     paymentId |-> IF ok(status) THEN ids.paymentId ELSE Undefined]

StockDec_AdminLogin ==
    /\ At("stockDec", "sd_adminLogin")
    /\ LoginThen("admin", "sd_createProduct")

StockDec_CreateProduct ==
    /\ At("stockDec", "sd_createProduct")
    /\ CheckedCall("admin", post(token["admin"], <<"/api/v2/admin/products">>, <<"product">>),
                   "sd_createVariant")

StockDec_CreateVariant ==
    /\ At("stockDec", "sd_createVariant")
    /\ CheckedCall("admin",
                   post(token["admin"], <<"/api/v2/admin/product-variants">>,
                        <<"variant", "onHand", "5", "tracked">>),
                   "sd_poll")

\* the raw context's GET of the polling loop: only an Accept header
PollRequest ==
    [verb |-> "GET", endpoint |-> <<"/api/v2/shop/product-variants", "V1">>,
     headers |-> [Authorization |-> <<"none", Null>>, Accept |-> "application/ld+json",
                  ContentType |-> "none"],
     data |-> NoData]

\* a polling loop that is not followed by expect(productVisible)
StockDec_PollUnchecked ==
    /\ At("stockDec", "sd_poll")
    /\ loc.attempt < MaxAttempts
    /\ \E status \in Answers("GET") :
        /\ wire' = Append(wire, Sent("context", PollRequest, status, Undefined))
        /\ lastResp' = [status |-> status, text |-> "bodyA"]
        /\ UNCHANGED <<token, result, seen>>
        /\ IF ok(status)
           THEN Goto("sd_createUser") /\ UNCHANGED loc
           ELSE /\ loc' = [loc EXCEPT !.attempt = @ + 1]
                /\ IF loc.attempt + 1 < MaxAttempts
                   THEN Goto("sd_poll")
                   ELSE Goto("sd_createUser")

\* one iteration of the polling loop; after it, expect(productVisible)
StockDec_Poll ==
    /\ At("stockDec", "sd_poll")
    /\ loc.attempt < MaxAttempts
    /\ \E status \in Answers("GET") :
        /\ wire' = Append(wire, Sent("context", PollRequest, status, Undefined))
        /\ lastResp' = [status |-> status, text |-> "bodyA"]
        /\ UNCHANGED <<token, result, seen>>
        /\ IF ok(status)
           THEN Goto("sd_createUser") /\ UNCHANGED loc
           ELSE /\ loc' = [loc EXCEPT !.attempt = @ + 1]
                /\ IF loc.attempt + 1 < MaxAttempts THEN Goto("sd_poll") ELSE Abort

StockDec_CreateUser ==
    /\ At("stockDec", "sd_createUser")
    /\ CheckedCall("admin", post(token["admin"], <<"/api/v2/admin/customers">>, <<"checkout">>),
                   "sd_shopLogin")

StockDec_ShopLogin ==
    /\ At("stockDec", "sd_shopLogin")
    /\ LoginThen("shop", "sd_createCart")

StockDec_CreateCart ==
    /\ At("stockDec", "sd_createCart")
    /\ IF ~validateToken(token["shop"])
       THEN Refused /\ Abort /\ UNCHANGED <<loc, seen>>
       ELSE \E status \in Answers("POST") :
            /\ Do("shop", post(token["shop"], <<"/api/v2/shop/orders">>, <<"localeCode">>),
                  status)
            /\ IF ok(status)
               THEN /\ loc' = [loc EXCEPT !.tokenValue = "T1"]
                    /\ seen' = NothingSeen
                    /\ Goto("sd_addItem")
               ELSE Abort /\ UNCHANGED <<loc, seen>>

StockDec_AddItem ==
    /\ At("stockDec", "sd_addItem")
    /\ CheckedCall("shop",
                   post(token["shop"], OrderPath(loc.tokenValue) \o <<"items">>,
                        <<"quantity", "1">>),
                   "sd_address")

\* PUT the addresses, expect ok; the body is not read
StockDec_Address ==
    /\ At("stockDec", "sd_address")
    /\ IF ~validateToken(token["shop"])
       THEN Refused /\ Abort /\ UNCHANGED <<loc, seen>>
       ELSE \E status \in Answers("PUT"), ids \in OrderIds :
            /\ Do("shop", put(token["shop"], OrderPath(loc.tokenValue), <<"email", "addresses">>),
                  status)
            /\ UNCHANGED loc
            /\ IF ok(status)
               THEN seen' = [seen EXCEPT !.shipmentId = ids.shipmentId,
                                         !.paymentId = ids.paymentId]
                    /\ Goto("sd_getOrder1")
               ELSE Abort /\ UNCHANGED seen

\* GET the order (not checked) and read shipments?.[0]?.id
StockDec_GetOrder1 ==
    /\ At("stockDec", "sd_getOrder1")
    /\ IF ~validateToken(token["shop"])
       THEN Refused /\ Abort /\ UNCHANGED <<loc, seen>>
       ELSE \E status \in Answers("GET"), ids \in OrderIds, err \in ErrorBodies :
            /\ ok(status) => err = "json"
            /\ Do("shop", get(token["shop"], OrderPath(loc.tokenValue)), status)
            /\ seen' = IF ok(status)
                       THEN [seen EXCEPT !.shipmentId = ids.shipmentId,
                                         !.paymentId = ids.paymentId]
                       ELSE seen
            /\ LET body == ReadOrder(status, ids, err)
               IN IF ~body.parsed
                  THEN Abort /\ UNCHANGED loc
                  ELSE /\ loc' = [loc EXCEPT !.shipmentId = body.shipmentId]
                       /\ IF body.shipmentId # Undefined
                          THEN Goto("sd_shipMethods")
                          ELSE Goto("sd_getOrder2")

\* `if (shippingMethodsResp.ok())` ... `if (members.length > 0)`
StockDec_ShippingMethods ==
    /\ At("stockDec", "sd_shipMethods")
    /\ IF ~validateToken(token["shop"])
       THEN Refused /\ Abort /\ UNCHANGED <<loc, seen>>
       ELSE \E status \in Answers("GET"), members \in ShippingMethodLists :
            /\ ~ok(status) => members = <<>>
            /\ Do("shop",
                  get(token["shop"],
                      OrderPath(loc.tokenValue) \o <<"shipments", loc.shipmentId, "methods">>),
                  status)
            /\ seen' = IF ok(status) THEN [seen EXCEPT !.methods = members] ELSE seen
            /\ IF ok(status) /\ Len(members) > 0
               THEN loc' = [loc EXCEPT !.methods = members] /\ Goto("sd_selectShipping")
               ELSE UNCHANGED loc /\ Goto("sd_getOrder2")

\* the PATCH that selects the first shipping method; its response is not looked at
StockDec_SelectShipping ==
    /\ At("stockDec", "sd_selectShipping")
    /\ IF ~validateToken(token["shop"])
       THEN Refused /\ Abort /\ UNCHANGED <<loc, seen>>
       ELSE \E status \in Answers("PATCH"), ids \in OrderIds :
            /\ Do("shop", SelectShippingRequest, status)
            /\ seen' = IF ok(status)
                       THEN [seen EXCEPT !.shipmentId = ids.shipmentId,
                                         !.paymentId = ids.paymentId]
                       ELSE seen
            /\ UNCHANGED loc
            /\ Goto("sd_getOrder2")

\* GET the order again (not checked) and read payments[0].id
StockDec_GetOrder2 ==
    /\ At("stockDec", "sd_getOrder2")
    /\ IF ~validateToken(token["shop"])
       THEN Refused /\ Abort /\ UNCHANGED <<loc, seen>>
       ELSE \E status \in Answers("GET"), ids \in OrderIds, err \in ErrorBodies :
            /\ ok(status) => err = "json"
            /\ Do("shop", get(token["shop"], OrderPath(loc.tokenValue)), status)
            /\ seen' = IF ok(status)
                       THEN [seen EXCEPT !.shipmentId = ids.shipmentId,
                                         !.paymentId = ids.paymentId]
                       ELSE seen
            /\ LET body == ReadOrder(status, ids, err)
               IN IF ~body.parsed
                  THEN Abort /\ UNCHANGED loc
                  ELSE /\ loc' = [loc EXCEPT !.paymentId = body.paymentId]
                       /\ IF body.paymentId # Undefined
                          THEN Goto("sd_payMethods")
                          ELSE Goto("sd_complete")

StockDec_PaymentMethods ==
    /\ At("stockDec", "sd_payMethods")
    /\ IF ~validateToken(token["shop"])
       THEN Refused /\ Abort /\ UNCHANGED <<loc, seen>>
       ELSE \E status \in Answers("GET"), members \in PaymentMethodLists :
            /\ ~ok(status) => members = <<>>
            /\ Do("shop",
                  get(token["shop"],
                      OrderPath(loc.tokenValue) \o <<"payments", loc.paymentId, "methods">>),
                  status)
            /\ seen' = IF ok(status) THEN [seen EXCEPT !.methods = members] ELSE seen
            /\ IF ok(status) /\ Len(members) > 0
               THEN loc' = [loc EXCEPT !.methods = members] /\ Goto("sd_selectPayment")
               ELSE UNCHANGED loc /\ Goto("sd_complete")

\* the PATCH that selects the first payment method; its response is not looked at
StockDec_SelectPayment ==
    /\ At("stockDec", "sd_selectPayment")
    /\ IgnoredCall("shop",
                   patch(token["shop"],
                         OrderPath(loc.tokenValue) \o <<"payments", loc.paymentId>>,
                         <<"paymentMethod", loc.methods[1]>>),
                   "sd_complete")

\* complete the order, expect ok and checkoutState 'completed'
StockDec_Complete ==
    /\ At("stockDec", "sd_complete")
    /\ IF ~validateToken(token["shop"])
       THEN Refused /\ Abort /\ UNCHANGED <<loc, seen>>
       ELSE \E status \in Answers("PATCH"), checkoutState \in CheckoutStateSet :
            /\ Do("shop",
                  patch(token["shop"], OrderPath(loc.tokenValue) \o <<"complete">>, <<>>),
                  status)
            /\ UNCHANGED seen
            /\ IF ~ok(status)
               THEN Abort /\ UNCHANGED loc
               ELSE /\ loc' = [loc EXCEPT !.observed = Append(@, checkoutState)]
                    /\ IF toBe(checkoutState, "completed")
                       THEN Goto("sd_verify")
                       ELSE Abort

\* read the variant back (not checked) and expect onHand < INITIAL_STOCK or onHold > 0
StockDec_VerifyStock ==
    /\ At("stockDec", "sd_verify")
    /\ IF ~validateToken(token["admin"])
       THEN Refused /\ Abort /\ UNCHANGED <<loc, seen>>
       ELSE \E status \in Answers("GET"), onHand \in {InitialStock - 2, InitialStock - 1, InitialStock},
               onHold \in {0, 1}, err \in ErrorBodies :
            /\ ok(status) => err = "json"
            /\ ~ok(status) => onHand = InitialStock /\ onHold = 0
            /\ Do("admin", get(token["admin"], VariantPath), status)
            /\ UNCHANGED seen
            /\ IF err = "text"
               THEN Abort /\ UNCHANGED loc
               ELSE /\ loc' = [loc EXCEPT !.finalStock = IF ok(status) THEN onHand ELSE -1,
                                          !.onHold = IF ok(status) THEN onHold ELSE -1]
                    /\ IF ok(status) /\ (onHand < InitialStock \/ onHold > 0)
                       THEN Goto("sd_cleanup")
                       ELSE Abort

\* `try { await adminClient.delete(product) } catch (e) {}`
StockDec_Cleanup ==
    /\ At("stockDec", "sd_cleanup")
    /\ IF ~validateToken(token["admin"])
       THEN Refused /\ Pass
       ELSE \E status \in Answers("DELETE") :
            /\ Do("admin", delete(token["admin"], <<"/api/v2/admin/products", "P1">>), status)
            /\ Pass
    /\ UNCHANGED <<loc, seen>>

NextStockDec ==
    \/ StockDec_AdminLogin
    \/ StockDec_CreateProduct
    \/ StockDec_CreateVariant
    \/ StockDec_Poll
    \/ StockDec_CreateUser
    \/ StockDec_ShopLogin
    \/ StockDec_CreateCart
    \/ StockDec_AddItem
    \/ StockDec_Address
    \/ StockDec_GetOrder1
    \/ StockDec_ShippingMethods
    \/ StockDec_SelectShipping
    \/ StockDec_GetOrder2
    \/ StockDec_PaymentMethods
    \/ StockDec_SelectPayment
    \/ StockDec_Complete
    \/ StockDec_VerifyStock
    \/ StockDec_Cleanup

----------------------------------------------------------------------------
(* tests/admin_catalog/product-inventory.spec.ts: 'Admin can fulfill (ship) an
   order' *)

ShipmentPath(id) == <<"/api/v2/admin/shipments", id>>

AdminOrderPath(tv) == <<"/api/v2/admin/orders", tv>>

ShipStates == {"ready", "shipped"}

\* test.beforeAll
Ship_AdminLogin ==
    /\ At("ship", "sh_adminLogin")
    /\ LoginThen("admin", "sh_createUser")

Ship_CreateUser ==
    /\ At("ship", "sh_createUser")
    /\ CheckedCall("admin", post(token["admin"], <<"/api/v2/admin/customers">>, <<"customer">>),
                   "sh_shopLogin")

Ship_ShopLogin ==
    /\ At("ship", "sh_shopLogin")
    /\ LoginThen("shop", "sh_createCart")

Ship_CreateCart ==
    /\ At("ship", "sh_createCart")
    /\ IF ~validateToken(token["shop"])
       THEN Refused /\ Abort /\ UNCHANGED <<loc, seen>>
       ELSE \E status \in Answers("POST") :
            /\ Do("shop", post(token["shop"], <<"/api/v2/shop/orders">>, <<"localeCode">>),
                  status)
            /\ IF ok(status)
               THEN /\ loc' = [loc EXCEPT !.tokenValue = "T1"]
                    /\ seen' = NothingSeen
                    /\ Goto("sh_variants")
               ELSE Abort /\ UNCHANGED <<loc, seen>>

\* the variants are fetched without a check; `variants[0].code` throws when the
\* answer has no member list or an empty one
Ship_GetVariants ==
    /\ At("ship", "sh_variants")
    /\ IF ~validateToken(token["admin"])
       THEN Refused /\ Abort /\ UNCHANGED <<loc, seen>>
       ELSE \E status \in Answers("GET"), members \in {<<>>, <<"V1">>} :
            /\ ~ok(status) => members = <<>>
            /\ Do("admin", get(token["admin"], <<"/api/v2/admin/product-variants">>), status)
            /\ UNCHANGED <<loc, seen>>
            /\ IF Len(members) > 0 THEN Goto("sh_addItem") ELSE Abort

Ship_AddItem ==
    /\ At("ship", "sh_addItem")
    /\ CheckedCall("shop",
                   post(token["shop"], OrderPath(loc.tokenValue) \o <<"items">>,
                        <<"quantity", "1">>),
                   "sh_address")

\* PUT the address, expect ok; `orderData.shipments[0].id` throws without a shipment
Ship_Address ==
    /\ At("ship", "sh_address")
    /\ IF ~validateToken(token["shop"])
       THEN Refused /\ Abort /\ UNCHANGED <<loc, seen>>
       ELSE \E status \in Answers("PUT"), ids \in OrderIds :
            /\ Do("shop", put(token["shop"], OrderPath(loc.tokenValue), <<"addresses">>), status)
            /\ IF ~ok(status)
               THEN Abort /\ UNCHANGED <<loc, seen>>
               ELSE /\ seen' = [seen EXCEPT !.shipmentId = ids.shipmentId,
                                            !.paymentId = ids.paymentId]
                    /\ loc' = [loc EXCEPT !.shipmentId = ids.shipmentId]
                    /\ IF ids.shipmentId # Undefined THEN Goto("sh_shipMethods") ELSE Abort

\* the methods are fetched without a check; `shippingMethods[0]['@id']` throws when
\* the answer has no member list or an empty one
Ship_ShippingMethods ==
    /\ At("ship", "sh_shipMethods")
    /\ IF ~validateToken(token["shop"])
       THEN Refused /\ Abort /\ UNCHANGED <<loc, seen>>
       ELSE \E status \in Answers("GET"), members \in ShippingMethodLists :
            /\ ~ok(status) => members = <<>>
            /\ Do("shop",
                  get(token["shop"],
                      OrderPath(loc.tokenValue) \o <<"shipments", loc.shipmentId, "methods">>),
                  status)
            /\ seen' = IF ok(status) THEN [seen EXCEPT !.methods = members] ELSE seen
            /\ IF Len(members) > 0
               THEN loc' = [loc EXCEPT !.methods = members] /\ Goto("sh_selectShipping")
               ELSE Abort /\ UNCHANGED loc

\* the PATCH that selects the first shipping method; its response is not looked at
Ship_SelectShipping ==
    /\ At("ship", "sh_selectShipping")
    /\ IF ~validateToken(token["shop"])
       THEN Refused /\ Abort /\ UNCHANGED <<loc, seen>>
       ELSE \E status \in Answers("PATCH"), ids \in OrderIds :
            /\ Do("shop", SelectShippingRequest, status)
            /\ seen' = IF ok(status)
                       THEN [seen EXCEPT !.shipmentId = ids.shipmentId,
                                         !.paymentId = ids.paymentId]
                       ELSE seen
            /\ UNCHANGED loc
            /\ Goto("sh_getOrder")

\* GET the order without a check; `payments[0].id` throws without a payment
Ship_GetOrder ==
    /\ At("ship", "sh_getOrder")
    /\ IF ~validateToken(token["shop"])
       THEN Refused /\ Abort /\ UNCHANGED <<loc, seen>>
       ELSE \E status \in Answers("GET"), ids \in OrderIds, err \in ErrorBodies :
            /\ ok(status) => err = "json"
            /\ Do("shop", get(token["shop"], OrderPath(loc.tokenValue)), status)
            /\ seen' = IF ok(status)
                       THEN [seen EXCEPT !.shipmentId = ids.shipmentId,
                                         !.paymentId = ids.paymentId]
                       ELSE seen
            /\ LET body == ReadOrder(status, ids, err)
               IN IF body.parsed /\ body.paymentId # Undefined
                  THEN loc' = [loc EXCEPT !.paymentId = body.paymentId] /\ Goto("sh_payMethods")
                  ELSE Abort /\ UNCHANGED loc

Ship_PaymentMethods ==
    /\ At("ship", "sh_payMethods")
    /\ IF ~validateToken(token["shop"])
       THEN Refused /\ Abort /\ UNCHANGED <<loc, seen>>
       ELSE \E status \in Answers("GET"), members \in PaymentMethodLists :
            /\ ~ok(status) => members = <<>>
            /\ Do("shop",
                  get(token["shop"],
                      OrderPath(loc.tokenValue) \o <<"payments", loc.paymentId, "methods">>),
                  status)
            /\ seen' = IF ok(status) THEN [seen EXCEPT !.methods = members] ELSE seen
            /\ IF Len(members) > 0
               THEN loc' = [loc EXCEPT !.methods = members] /\ Goto("sh_selectPayment")
               ELSE Abort /\ UNCHANGED loc

\* the PATCH that selects the first payment method; its response is not looked at
Ship_SelectPayment ==
    /\ At("ship", "sh_selectPayment")
    /\ IgnoredCall("shop",
                   patch(token["shop"],
                         OrderPath(loc.tokenValue) \o <<"payments", loc.paymentId>>,
                         <<"paymentMethod", loc.methods[1]>>),
                   "sh_complete")

\* complete the order, expect ok and state 'new'
Ship_Complete ==
    /\ At("ship", "sh_complete")
    /\ IF ~validateToken(token["shop"])
       THEN Refused /\ Abort /\ UNCHANGED <<loc, seen>>
       ELSE \E status \in Answers("PATCH"), state \in {"cart", "new"} :
            /\ Do("shop",
                  patch(token["shop"], OrderPath(loc.tokenValue) \o <<"complete">>, <<>>),
                  status)
            /\ UNCHANGED seen
            /\ IF ~ok(status)
               THEN Abort /\ UNCHANGED loc
               ELSE /\ loc' = [loc EXCEPT !.orderState = state]
                    /\ IF toBe(state, "new") THEN Goto("sh_adminOrder") ELSE Abort

\* the admin reads the order, expect ok; the shipment id is the last segment of
\* shipments[0], and reading it throws when the order has no shipment
Ship_AdminOrder ==
    /\ At("ship", "sh_adminOrder")
    /\ IF ~validateToken(token["admin"])
       THEN Refused /\ Abort /\ UNCHANGED <<loc, seen>>
       ELSE \E status \in Answers("GET"), id \in ShipmentIds \cup {Undefined} :
            /\ Do("admin", get(token["admin"], AdminOrderPath(loc.tokenValue)), status)
            /\ UNCHANGED seen
            /\ IF ok(status) /\ id # Undefined
               THEN loc' = [loc EXCEPT !.adminShipmentId = id] /\ Goto("sh_ship")
               ELSE Abort /\ UNCHANGED loc

\* PATCH .../ship; `if (!shipResp.ok())` the PUT follows
Ship_Ship ==
    /\ At("ship", "sh_ship")
    /\ IF ~validateToken(token["admin"])
       THEN Refused /\ Abort
       ELSE \E status \in Answers("PATCH") :
            /\ Do("admin",
                  patch(token["admin"], ShipmentPath(loc.adminShipmentId) \o <<"ship">>, <<>>),
                  status)
            /\ IF ok(status) THEN Goto("sh_verifyShipment") ELSE Goto("sh_shipPut")
    /\ UNCHANGED <<loc, seen>>

\* the PUT of state 'shipped', then expect(shipResp.ok())
Ship_ShipPut ==
    /\ At("ship", "sh_shipPut")
    /\ CheckedCall("admin",
                   put(token["admin"], ShipmentPath(loc.adminShipmentId), <<"state", "shipped">>),
                   "sh_verifyShipment")

\* read the shipment, expect ok and state 'shipped'
Ship_VerifyShipment ==
    /\ At("ship", "sh_verifyShipment")
    /\ IF ~validateToken(token["admin"])
       THEN Refused /\ Abort
       ELSE \E status \in Answers("GET"), state \in ShipStates :
            /\ Do("admin", get(token["admin"], ShipmentPath(loc.adminShipmentId)), status)
            /\ IF ok(status) /\ toBe(state, "shipped") THEN Goto("sh_verifyOrder") ELSE Abort
    /\ UNCHANGED <<loc, seen>>

\* read the order, expect ok and shippingState 'shipped'
Ship_VerifyOrder ==
    /\ At("ship", "sh_verifyOrder")
    /\ IF ~validateToken(token["admin"])
       THEN Refused /\ Abort
       ELSE \E status \in Answers("GET"), shippingState \in ShipStates :
            /\ Do("admin", get(token["admin"], AdminOrderPath(loc.tokenValue)), status)
            /\ IF ok(status) /\ toBe(shippingState, "shipped") THEN Goto("sh_cleanup") ELSE Abort
    /\ UNCHANGED <<loc, seen>>

\* delete the user's credentials; the response is not looked at
Ship_Cleanup ==
    /\ At("ship", "sh_cleanup")
    /\ IF ~validateToken(token["admin"])
       THEN Refused /\ Abort
       ELSE \E status \in Answers("DELETE") :
            /\ Do("admin",
                  delete(token["admin"], <<"/api/v2/admin/customers", "U1", "user">>), status)
            /\ Pass
    /\ UNCHANGED <<loc, seen>>

NextShip ==
    \/ Ship_AdminLogin
    \/ Ship_CreateUser
    \/ Ship_ShopLogin
    \/ Ship_CreateCart
    \/ Ship_GetVariants
    \/ Ship_AddItem
    \/ Ship_Address
    \/ Ship_ShippingMethods
    \/ Ship_SelectShipping
    \/ Ship_GetOrder
    \/ Ship_PaymentMethods
    \/ Ship_SelectPayment
    \/ Ship_Complete
    \/ Ship_AdminOrder
    \/ Ship_Ship
    \/ Ship_ShipPut
    \/ Ship_VerifyShipment
    \/ Ship_VerifyOrder
    \/ Ship_Cleanup

----------------------------------------------------------------------------
(* The price-integrity suite: 'Order total includes items, shipping, and
   adjustments' *)

\* getTestVariant: GET one variant, expect ok, throw when the list is empty
OrderTotal_AdminLogin ==
    /\ At("orderTotal", "ot_adminLogin")
    /\ LoginThen("admin", "ot_variant")

OrderTotal_GetTestVariant ==
    /\ At("orderTotal", "ot_variant")
    /\ IF ~validateToken(token["admin"])
       THEN Refused /\ Abort
       ELSE \E status \in Answers("GET"), members \in {<<>>, <<"V1">>} :
            /\ Do("admin",
                  get(token["admin"], <<"/api/v2/admin/product-variants?itemsPerPage=1">>),
                  status)
            /\ IF ok(status) /\ Len(members) > 0 THEN Goto("ot_createUser") ELSE Abort
    /\ UNCHANGED <<loc, seen>>

\* the customer is created and the response is not looked at
OrderTotal_CreateUser ==
    /\ At("orderTotal", "ot_createUser")
    /\ IgnoredCall("admin",
                   post(token["admin"], <<"/api/v2/admin/customers">>, <<"checkout">>),
                   "ot_shopLogin")

OrderTotal_ShopLogin ==
    /\ At("orderTotal", "ot_shopLogin")
    /\ LoginThen("shop", "ot_createCart")

\* the cart is created without a check: `cart.tokenValue` is undefined when the
\* answer is an error document, and json() throws when it is not JSON
OrderTotal_CreateCart ==
    /\ At("orderTotal", "ot_createCart")
    /\ IF ~validateToken(token["shop"])
       THEN Refused /\ Abort /\ UNCHANGED <<loc, seen>>
       ELSE \E status \in Answers("POST"), err \in ErrorBodies :
            /\ ok(status) => err = "json"
            /\ Do("shop", post(token["shop"], <<"/api/v2/shop/orders">>, <<"localeCode">>),
                  status)
            /\ seen' = NothingSeen
            /\ IF err = "text"
               THEN Abort /\ UNCHANGED loc
               ELSE /\ loc' = [loc EXCEPT !.tokenValue = IF ok(status) THEN "T1" ELSE Undefined]
                    /\ Goto("ot_addItem")

OrderTotal_AddItem ==
    /\ At("orderTotal", "ot_addItem")
    /\ IgnoredCall("shop",
                   post(token["shop"], OrderPath(loc.tokenValue) \o <<"items">>,
                        <<"quantity", "2">>),
                   "ot_address")

\* the address is PATCHed onto the order; the response is not looked at
OrderTotal_Address ==
    /\ At("orderTotal", "ot_address")
    /\ IF ~validateToken(token["shop"])
       THEN Refused /\ Abort /\ UNCHANGED <<loc, seen>>
       ELSE \E status \in Answers("PATCH"), ids \in OrderIds :
            /\ Do("shop",
                  patch(token["shop"], OrderPath(loc.tokenValue), <<"email", "addresses">>),
                  status)
            /\ seen' = IF ok(status)
                       THEN [seen EXCEPT !.shipmentId = ids.shipmentId,
                                         !.paymentId = ids.paymentId]
                       ELSE seen
            /\ UNCHANGED loc
            /\ Goto("ot_getOrder")

\* GET the order (not checked); `if (shipments && shipments.length > 0)`
OrderTotal_GetOrder ==
    /\ At("orderTotal", "ot_getOrder")
    /\ IF ~validateToken(token["shop"])
       THEN Refused /\ Abort /\ UNCHANGED <<loc, seen>>
       ELSE \E status \in Answers("GET"), ids \in OrderIds, err \in ErrorBodies :
            /\ ok(status) => err = "json"
            /\ Do("shop", get(token["shop"], OrderPath(loc.tokenValue)), status)
            /\ seen' = IF ok(status)
                       THEN [seen EXCEPT !.shipmentId = ids.shipmentId,
                                         !.paymentId = ids.paymentId]
                       ELSE seen
            /\ LET body == ReadOrder(status, ids, err)
               IN IF ~body.parsed
                  THEN Abort /\ UNCHANGED loc
                  ELSE /\ loc' = [loc EXCEPT !.shipmentId = body.shipmentId]
                       /\ IF body.shipmentId # Undefined
                          THEN Goto("ot_shipMethods")
                          ELSE Goto("ot_final")

\* `if (methodsResp.ok())` ... `if (members && members.length > 0)`
OrderTotal_ShippingMethods ==
    /\ At("orderTotal", "ot_shipMethods")
    /\ IF ~validateToken(token["shop"])
       THEN Refused /\ Abort /\ UNCHANGED <<loc, seen>>
       ELSE \E status \in Answers("GET"), members \in ShippingMethodLists :
            /\ ~ok(status) => members = <<>>
            /\ Do("shop",
                  get(token["shop"],
                      OrderPath(loc.tokenValue) \o <<"shipments", loc.shipmentId, "methods">>),
                  status)
            /\ seen' = IF ok(status) THEN [seen EXCEPT !.methods = members] ELSE seen
            /\ IF ok(status) /\ Len(members) > 0
               THEN loc' = [loc EXCEPT !.methods = members] /\ Goto("ot_selectShipping")
               ELSE UNCHANGED loc /\ Goto("ot_final")

\* the method is named by the IRI built from the first member's code; the response
\* is not looked at
OrderTotal_SelectShipping ==
    /\ At("orderTotal", "ot_selectShipping")
    /\ IF ~validateToken(token["shop"])
       THEN Refused /\ Abort /\ UNCHANGED <<loc, seen>>
       ELSE \E status \in Answers("PATCH"), ids \in OrderIds :
            /\ Do("shop",
                  patch(token["shop"],
                        OrderPath(loc.tokenValue) \o <<"shipments", loc.shipmentId>>,
                        <<"shippingMethod", "/api/v2/shop/shipping-methods", loc.methods[1]>>),
                  status)
            /\ seen' = IF ok(status)
                       THEN [seen EXCEPT !.shipmentId = ids.shipmentId,
                                         !.paymentId = ids.paymentId]
                       ELSE seen
            /\ UNCHANGED loc
            /\ Goto("ot_final")

\* the totals of an order representation, in cents; `present` are the fields the
\* document carries
OrderTotals ==
    [present : {{}, {"itemsTotal"}, {"itemsTotal", "total"}},
     itemsTotal : {100}, shippingTotal : {0, 50}, taxTotal : {0, 10},
     orderPromotionTotal : {-20, 0}, total : {0, 99, 131, 160}]

abs(x) == IF x < 0 THEN -x ELSE x

\* assertions on the final order without the comparison with the sums
TotalsAcceptedUnsummed(finalOrder) ==
    /\ "itemsTotal" \in finalOrder.present
    /\ "total" \in finalOrder.present
    /\ toBeGreaterThan(finalOrder.total, 0)
    /\ finalOrder.total >= finalOrder.itemsTotal

\* the assertions on the final order, in the order the test makes them
TotalsAccepted(finalOrder) ==
    LET itemsTotal == IF "itemsTotal" \in finalOrder.present THEN finalOrder.itemsTotal ELSE 0
        shippingTotal == finalOrder.shippingTotal
        taxTotal == finalOrder.taxTotal
        orderPromotionTotal == finalOrder.orderPromotionTotal
        totalWithSeparateTax == itemsTotal + shippingTotal + taxTotal + orderPromotionTotal
        totalWithIncludedTax == itemsTotal + shippingTotal + orderPromotionTotal
        matchesSeparateTax == abs(finalOrder.total - totalWithSeparateTax) <= 1
        matchesIncludedTax == abs(finalOrder.total - totalWithIncludedTax) <= 1
    IN /\ "itemsTotal" \in finalOrder.present
       /\ "total" \in finalOrder.present
       /\ toBeGreaterThan(finalOrder.total, 0)
       /\ finalOrder.total >= itemsTotal
       /\ matchesSeparateTax \/ matchesIncludedTax

\* GET the final order (not checked) and assert on its totals
OrderTotal_Final ==
    /\ At("orderTotal", "ot_final")
    /\ IF ~validateToken(token["shop"])
       THEN Refused /\ Abort /\ UNCHANGED <<loc, seen>>
       ELSE \E status \in Answers("GET"), finalOrder \in OrderTotals, err \in ErrorBodies :
            /\ ok(status) => err = "json"
            /\ ~ok(status) => finalOrder.present = {}
            /\ Do("shop", get(token["shop"], OrderPath(loc.tokenValue)), status)
            /\ UNCHANGED seen
            /\ IF err = "text"
               THEN Abort /\ UNCHANGED loc
               ELSE /\ loc' = [loc EXCEPT !.accepted = TotalsAccepted(finalOrder),
                                          !.total = finalOrder.total,
                                          !.finalOrder = finalOrder]
                    /\ IF TotalsAccepted(finalOrder) THEN Goto("ot_cleanup") ELSE Abort

\* delete the cart; the response is not looked at
OrderTotal_Cleanup ==
    /\ At("orderTotal", "ot_cleanup")
    /\ IF ~validateToken(token["shop"])
       THEN Refused /\ Abort
       ELSE \E status \in Answers("DELETE") :
            /\ Do("shop", delete(token["shop"], OrderPath(loc.tokenValue)), status)
            /\ Pass
    /\ UNCHANGED <<loc, seen>>

NextOrderTotal ==
    \/ OrderTotal_AdminLogin
    \/ OrderTotal_GetTestVariant
    \/ OrderTotal_CreateUser
    \/ OrderTotal_ShopLogin
    \/ OrderTotal_CreateCart
    \/ OrderTotal_AddItem
    \/ OrderTotal_Address
    \/ OrderTotal_GetOrder
    \/ OrderTotal_ShippingMethods
    \/ OrderTotal_SelectShipping
    \/ OrderTotal_Final
    \/ OrderTotal_Cleanup

----------------------------------------------------------------------------
(* tests/critical/stock-validation.spec.ts: 'Cannot add more items than available
   stock' *)

\* LIMITED_STOCK
LimitedStock == 3

\* `quantity: 10`
RequestedQuantity == 10

\* an expectation that accepts any status
toContainAnything(list, value) == TRUE

\* `expect([400, 422]).toContain(status)`
toContain(list, value) == \E i \in DOMAIN list : list[i] = value

\* the items of a cart representation, by quantity
CartItems == {<<>>, <<LimitedStock>>, <<RequestedQuantity>>}

StockCap_AdminLogin ==
    /\ At("stockCap", "sc_adminLogin")
    /\ LoginThen("admin", "sc_createProduct")

StockCap_CreateProduct ==
    /\ At("stockCap", "sc_createProduct")
    /\ CheckedCall("admin", post(token["admin"], <<"/api/v2/admin/products">>, <<"product">>),
                   "sc_createVariant")

StockCap_CreateVariant ==
    /\ At("stockCap", "sc_createVariant")
    /\ CheckedCall("admin",
                   post(token["admin"], <<"/api/v2/admin/product-variants">>,
                        <<"variant", "onHand", "3", "tracked">>),
                   "sc_verify")

\* read the variant back (not checked), expect onHand LIMITED_STOCK and tracked true
StockCap_VerifyVariant ==
    /\ At("stockCap", "sc_verify")
    /\ IF ~validateToken(token["admin"])
       THEN Refused /\ Abort
       ELSE \E status \in Answers("GET"), onHand \in {0, LimitedStock}, tracked \in BOOLEAN :
            /\ Do("admin", get(token["admin"], VariantPath), status)
            /\ IF ok(status) /\ toBe(onHand, LimitedStock) /\ toBe(tracked, TRUE)
               THEN Goto("sc_createUser")
               ELSE Abort
    /\ UNCHANGED <<loc, seen>>

StockCap_CreateUser ==
    /\ At("stockCap", "sc_createUser")
    /\ CheckedCall("admin", post(token["admin"], <<"/api/v2/admin/customers">>, <<"basic">>),
                   "sc_shopLogin")

StockCap_ShopLogin ==
    /\ At("stockCap", "sc_shopLogin")
    /\ LoginThen("shop", "sc_createCart")

StockCap_CreateCart ==
    /\ At("stockCap", "sc_createCart")
    /\ IF ~validateToken(token["shop"])
       THEN Refused /\ Abort /\ UNCHANGED <<loc, seen>>
       ELSE \E status \in Answers("POST") :
            /\ Do("shop", post(token["shop"], <<"/api/v2/shop/orders">>, <<"localeCode">>),
                  status)
            /\ IF ok(status)
               THEN /\ loc' = [loc EXCEPT !.tokenValue = "T1"]
                    /\ seen' = NothingSeen
                    /\ Goto("sc_addItem")
               ELSE Abort /\ UNCHANGED <<loc, seen>>

\* ask for 10 of a variant that has 3; `if (addItemResp.ok())` the cart is read back,
\* else the status is expected in [400, 422]
StockCap_AddItem ==
    /\ At("stockCap", "sc_addItem")
    /\ IF ~validateToken(token["shop"])
       THEN Refused /\ Abort /\ UNCHANGED loc
       ELSE \E status \in Answers("POST") \cup {400, 404} :
            /\ Do("shop",
                  post(token["shop"], OrderPath(loc.tokenValue) \o <<"items">>,
                       <<"quantity", "10">>),
                  status)
            /\ IF ok(status)
               THEN loc' = [loc EXCEPT !.addStatus = status] /\ Goto("sc_readCart")
               ELSE /\ loc' = [loc EXCEPT !.addStatus = status,
                                          !.asserted = @ \cup {"rejected"}]
                    /\ IF toContain(<<400, 422>>, status) THEN Goto("sc_deleteCart") ELSE Abort
    /\ UNCHANGED seen

\* GET the cart (not checked); `if (updatedCart.items && updatedCart.items.length > 0)`
\* the first item's quantity is expected to be at most LIMITED_STOCK
StockCap_ReadCart ==
    /\ At("stockCap", "sc_readCart")
    /\ IF ~validateToken(token["shop"])
       THEN Refused /\ Abort /\ UNCHANGED loc
       ELSE \E status \in Answers("GET"), items \in CartItems, err \in ErrorBodies :
            /\ ok(status) => err = "json"
            /\ ~ok(status) => items = <<>>
            /\ Do("shop", get(token["shop"], OrderPath(loc.tokenValue)), status)
            /\ IF err = "text"
               THEN Abort /\ UNCHANGED loc
               ELSE IF Len(items) > 0
               THEN /\ loc' = [loc EXCEPT !.items = items, !.asserted = @ \cup {"capped"}]
                    /\ IF items[1] <= LimitedStock THEN Goto("sc_deleteCart") ELSE Abort
               ELSE UNCHANGED loc /\ Goto("sc_deleteCart")
    /\ UNCHANGED seen

\* delete the cart; the response is not looked at
StockCap_DeleteCart ==
    /\ At("stockCap", "sc_deleteCart")
    /\ IgnoredCall("shop", delete(token["shop"], OrderPath(loc.tokenValue)), "sc_deleteProduct")

\* `try { await adminClient.delete(product) } catch (e) {}`
StockCap_DeleteProduct ==
    /\ At("stockCap", "sc_deleteProduct")
    /\ IF ~validateToken(token["admin"])
       THEN Refused /\ Pass
       ELSE \E status \in Answers("DELETE") :
            /\ Do("admin", delete(token["admin"], <<"/api/v2/admin/products", "P1">>), status)
            /\ Pass
    /\ UNCHANGED <<loc, seen>>

NextStockCap ==
    \/ StockCap_AdminLogin
    \/ StockCap_CreateProduct
    \/ StockCap_CreateVariant
    \/ StockCap_VerifyVariant
    \/ StockCap_CreateUser
    \/ StockCap_ShopLogin
    \/ StockCap_CreateCart
    \/ StockCap_AddItem
    \/ StockCap_ReadCart
    \/ StockCap_DeleteCart
    \/ StockCap_DeleteProduct

----------------------------------------------------------------------------
(* The price-integrity suite: 'Item subtotal equals unit price x quantity', 'Zero
   quantity items are not allowed', 'Negative quantity items are not allowed' *)

PriceTests == {"subtotal", "zeroQty", "negQty"}

\* `const quantity = 3`
Quantity == 3

Price_AdminLogin ==
    /\ scen \in PriceTests
    /\ At(scen, "pt_adminLogin")
    /\ LoginThen("admin", "pt_variant")

Price_GetTestVariant ==
    /\ scen \in PriceTests
    /\ At(scen, "pt_variant")
    /\ IF ~validateToken(token["admin"])
       THEN Refused /\ Abort
       ELSE \E status \in Answers("GET"), members \in {<<>>, <<"V1">>} :
            /\ Do("admin",
                  get(token["admin"], <<"/api/v2/admin/product-variants?itemsPerPage=1">>),
                  status)
            /\ IF ok(status) /\ Len(members) > 0 THEN Goto("pt_createUser") ELSE Abort
    /\ UNCHANGED <<loc, seen>>

Price_CreateUser ==
    /\ scen \in PriceTests
    /\ At(scen, "pt_createUser")
    /\ CheckedCall("admin", post(token["admin"], <<"/api/v2/admin/customers">>, <<"customer">>),
                   "pt_shopLogin")

Price_ShopLogin ==
    /\ scen \in PriceTests
    /\ At(scen, "pt_shopLogin")
    /\ LoginThen("shop", "pt_createCart")

\* create the cart; 'Negative quantity ...' does not check the response
Price_CreateCart ==
    /\ scen \in PriceTests
    /\ At(scen, "pt_createCart")
    /\ IF ~validateToken(token["shop"])
       THEN Refused /\ Abort /\ UNCHANGED loc
       ELSE \E status \in Answers("POST"), err \in ErrorBodies :
            /\ ok(status) => err = "json"
            /\ scen # "negQty" => err = "json"
            /\ Do("shop", post(token["shop"], <<"/api/v2/shop/orders">>, <<"localeCode">>),
                  status)
            /\ IF (scen # "negQty" /\ ~ok(status)) \/ err = "text"
               THEN Abort /\ UNCHANGED loc
               ELSE /\ loc' = [loc EXCEPT !.tokenValue = IF ok(status) THEN "T1" ELSE Undefined]
                    /\ Goto("pt_addItem")
    /\ seen' = NothingSeen

\* add 3 items, expect ok
Subtotal_AddItem ==
    /\ At("subtotal", "pt_addItem")
    /\ CheckedCall("shop",
                   post(token["shop"], OrderPath(loc.tokenValue) \o <<"items">>,
                        <<"quantity", "3">>),
                   "pt_readCart")

\* a JavaScript number: NaN or a value
Num(n) == [nan |-> FALSE, v |-> n]
NaN == [nan |-> TRUE, v |-> 0]

\* `a * q`, NaN when a is undefined
times(a, q) == IF a.nan THEN NaN ELSE Num(a.v * q)

\* `expect(a).toBeGreaterThanOrEqual(b)`: no comparison with NaN holds
toBeGreaterThanOrEqual(a, b) == ~a.nan /\ ~b.nan /\ a.v >= b.v

\* items[0] of a cart representation; `present` are the fields the platform sent
CartLineItems ==
    [present : SUBSET {"unitPrice", "subtotal", "total"},
     quantity : {1, Quantity}, unitPrice : {100}, subtotal : {250, 300}, total : {250, 300, 330}]

NoItem == [present |-> {}, quantity |-> 0, unitPrice |-> 0, subtotal |-> 0, total |-> 0]

\* `item.field`, NaN standing for undefined in arithmetic
Field(item, f) == IF f \in item.present THEN Num(item[f]) ELSE NaN

\* `item.unitPrice * quantity`
baseSubtotal(item) == times(Field(item, "unitPrice"), Quantity)

\* the subtotal taken from the product alone, whatever the item carries
itemSubtotalComputed(item) == baseSubtotal(item)

\* `item.subtotal ?? baseSubtotal`
itemSubtotal(item) ==
    IF "subtotal" \in item.present THEN Num(item.subtotal) ELSE baseSubtotal(item)

\* the three expectations on the line item; toBe is Object.is, which holds of NaN
\* and NaN
ItemAccepted(item) ==
    /\ toBe(item.quantity, Quantity)
    /\ toBe(itemSubtotal(item), baseSubtotal(item))
    /\ "total" \in item.present
    /\ toBeGreaterThanOrEqual(Num(item.total), itemSubtotal(item))

\* GET the cart (not checked); `updatedCart.items[0]` throws without an item
Subtotal_ReadCart ==
    /\ At("subtotal", "pt_readCart")
    /\ IF ~validateToken(token["shop"])
       THEN Refused /\ Abort /\ UNCHANGED loc
       ELSE \E status \in Answers("GET"), item \in CartLineItems \cup {NoItem} :
            /\ ~ok(status) => item = NoItem
            /\ Do("shop", get(token["shop"], OrderPath(loc.tokenValue)), status)
            /\ IF item = NoItem
               THEN Abort /\ UNCHANGED loc
               ELSE /\ loc' = [loc EXCEPT !.item = item]
                    /\ IF ItemAccepted(item) THEN Goto("pt_cleanup") ELSE Abort
    /\ UNCHANGED seen

\* add quantity 0: expect not ok and the status in [400, 422]
ZeroQty_AddItem ==
    /\ At("zeroQty", "pt_addItem")
    /\ IF ~validateToken(token["shop"])
       THEN Refused /\ Abort /\ UNCHANGED loc
       ELSE \E status \in Answers("POST") \cup {400, 404} :
            /\ Do("shop",
                  post(token["shop"], OrderPath(loc.tokenValue) \o <<"items">>,
                       <<"quantity", "0">>),
                  status)
            /\ loc' = [loc EXCEPT !.addStatus = status]
            /\ IF ~ok(status) /\ toContain(<<400, 422>>, status)
               THEN Goto("pt_cleanup")
               ELSE Abort
    /\ UNCHANGED seen

\* add quantity -5: expect not ok
NegQty_AddItem ==
    /\ At("negQty", "pt_addItem")
    /\ IF ~validateToken(token["shop"])
       THEN Refused /\ Abort /\ UNCHANGED loc
       ELSE \E status \in Answers("POST") \cup {400, 404} :
            /\ Do("shop",
                  post(token["shop"], OrderPath(loc.tokenValue) \o <<"items">>,
                       <<"quantity", "-5">>),
                  status)
            /\ loc' = [loc EXCEPT !.addStatus = status]
            /\ IF ~ok(status) THEN Goto("pt_cleanup") ELSE Abort
    /\ UNCHANGED seen

\* delete the cart; the response is not looked at
Price_Cleanup ==
    /\ scen \in PriceTests
    /\ At(scen, "pt_cleanup")
    /\ IF ~validateToken(token["shop"])
       THEN Refused /\ Abort
       ELSE \E status \in Answers("DELETE") :
            /\ Do("shop", delete(token["shop"], OrderPath(loc.tokenValue)), status)
            /\ Pass
    /\ UNCHANGED <<loc, seen>>

NextPrice ==
    \/ Price_AdminLogin
    \/ Price_GetTestVariant
    \/ Price_CreateUser
    \/ Price_ShopLogin
    \/ Price_CreateCart
    \/ Subtotal_AddItem
    \/ Subtotal_ReadCart
    \/ ZeroQty_AddItem
    \/ NegQty_AddItem
    \/ Price_Cleanup

----------------------------------------------------------------------------
(* tests/critical/security-authorization.spec.ts: 'User cannot access another users
   cart', 'User can only modify their own cart' *)

SecurityTests == {"crossRead", "crossModify"}

\* the tests of the suite, 'Admin credentials dont work on shop API' included
SecuritySuite == SecurityTests \cup {"adminOnShop"}

\* test.beforeAll
Security_AdminLogin ==
    /\ scen \in SecuritySuite
    /\ At(scen, "se_adminLogin")
    /\ LoginThen("admin", "se_createUserA")

Security_CreateUserA ==
    /\ scen \in SecuritySuite
    /\ At(scen, "se_createUserA")
    /\ CheckedCall("admin",
                   post(token["admin"], <<"/api/v2/admin/customers">>, <<"basic", "userA">>),
                   "se_createUserB")

Security_CreateUserB ==
    /\ scen \in SecuritySuite
    /\ At(scen, "se_createUserB")
    /\ CheckedCall("admin",
                   post(token["admin"], <<"/api/v2/admin/customers">>, <<"basic", "userB">>),
                   IF scen = "adminOnShop" THEN "ao_login" ELSE "se_loginA")

Security_LoginA ==
    /\ scen \in SecurityTests
    /\ At(scen, "se_loginA")
    /\ LoginThen("shop", "se_createCartA")

\* user A creates a cart; 'User can only modify ...' does not check the response
Security_CreateCartA ==
    /\ scen \in SecurityTests
    /\ At(scen, "se_createCartA")
    /\ IF ~validateToken(token["shop"])
       THEN Refused /\ Abort /\ UNCHANGED loc
       ELSE \E status \in Answers("POST"), err \in ErrorBodies :
            /\ ok(status) => err = "json"
            /\ scen = "crossRead" => err = "json"
            /\ Do("shop", post(token["shop"], <<"/api/v2/shop/orders">>, <<"localeCode">>),
                  status)
            /\ IF (scen = "crossRead" /\ ~ok(status)) \/ err = "text"
               THEN Abort /\ UNCHANGED loc
               ELSE /\ loc' = [loc EXCEPT !.tokenValue = IF ok(status) THEN "T1" ELSE Undefined]
                    /\ Goto("se_loginB")
    /\ seen' = NothingSeen

Security_LoginB ==
    /\ scen \in SecurityTests
    /\ At(scen, "se_loginB")
    /\ LoginThen("shopB", IF scen = "crossRead" THEN "se_accessB" ELSE "se_variants")

\* user B reads user A's cart: expect the status in [403, 404]
CrossRead_Access ==
    /\ At("crossRead", "se_accessB")
    /\ IF ~validateToken(token["shopB"])
       THEN Refused /\ Abort /\ UNCHANGED loc
       ELSE \E status \in Answers("GET") \cup {403, 404} :
            /\ Do("shopB", get(token["shopB"], OrderPath(loc.tokenValue)), status)
            /\ loc' = [loc EXCEPT !.addStatus = status]
            /\ IF toContain(<<403, 404>>, status) THEN Goto("se_cleanup") ELSE Abort
    /\ UNCHANGED seen

\* the admin looks a variant up (not checked); without one the test goes straight to
\* its cleanup
CrossModify_GetVariants ==
    /\ At("crossModify", "se_variants")
    /\ IF ~validateToken(token["admin"])
       THEN Refused /\ Abort
       ELSE \E status \in Answers("GET"), members \in {<<>>, <<"V1">>}, err \in ErrorBodies :
            /\ ok(status) => err = "json"
            /\ ~ok(status) => members = <<>>
            /\ Do("admin",
                  get(token["admin"], <<"/api/v2/admin/product-variants?itemsPerPage=1">>),
                  status)
            /\ IF err = "text" THEN Abort
               ELSE IF Len(members) > 0 THEN Goto("se_modifyB")
               ELSE Goto("se_cleanup")
    /\ UNCHANGED <<loc, seen>>

\* user B adds an item to user A's cart; on 403 or 404 and on 201 the status is
\* accepted, after the cart was read back in the 201 case
CrossModify_AddItem ==
    /\ At("crossModify", "se_modifyB")
    /\ IF ~validateToken(token["shopB"])
       THEN Refused /\ Abort /\ UNCHANGED loc
       ELSE \E status \in Answers("POST") \cup {200, 403, 404} :
            /\ Do("shopB",
                  post(token["shopB"], OrderPath(loc.tokenValue) \o <<"items">>,
                       <<"quantity", "1">>),
                  status)
            /\ IF status = 201
               THEN loc' = [loc EXCEPT !.addStatus = status] /\ Goto("se_cartCheck")
               ELSE /\ loc' = [loc EXCEPT !.addStatus = status,
                                          !.asserted = @ \cup {"status"}]
                    /\ IF toContain(<<201, 403, 404>>, status)
                       THEN Goto("se_cleanup")
                       ELSE Abort
    /\ UNCHANGED seen

\* user A reads the cart back: json() must parse and the response must be ok
CrossModify_CartCheck ==
    /\ At("crossModify", "se_cartCheck")
    /\ IF ~validateToken(token["shop"])
       THEN Refused /\ Abort /\ UNCHANGED loc
       ELSE \E status \in Answers("GET"), err \in ErrorBodies :
            /\ ok(status) => err = "json"
            /\ Do("shop", get(token["shop"], OrderPath(loc.tokenValue)), status)
            /\ IF err = "text"
               THEN Abort /\ UNCHANGED loc
               ELSE /\ loc' = [loc EXCEPT !.asserted =
                                  IF ok(status) THEN @ \cup {"cartCheck", "status"}
                                  ELSE @ \cup {"cartCheck"}]
                    /\ IF ok(status) /\ toContain(<<201, 403, 404>>, loc.addStatus)
                       THEN Goto("se_cleanup")
                       ELSE Abort
    /\ UNCHANGED seen

\* user A deletes the cart; the response is not looked at
Security_Cleanup ==
    /\ scen \in SecurityTests
    /\ At(scen, "se_cleanup")
    /\ IF ~validateToken(token["shop"])
       THEN Refused /\ Abort
       ELSE \E status \in Answers("DELETE") :
            /\ Do("shop", delete(token["shop"], OrderPath(loc.tokenValue)), status)
            /\ Pass
    /\ UNCHANGED <<loc, seen>>

\* 'Admin credentials dont work on shop API': the administrator's credentials are
\* posted to the shop token endpoint through a bare request context; the answer is
\* logged, nothing is asserted
AdminOnShop_Login ==
    /\ At("adminOnShop", "ao_login")
    /\ \E status \in Answers("POST") \cup {401} :
        /\ wire' = Append(wire,
                          Sent("shopContext",
                               [loginRequest("shop") EXCEPT !.data = <<"sylius@example.com", "sylius">>],
                               status, IF ok(status) THEN "t5" ELSE Undefined))
        /\ lastResp' = [status |-> status, text |-> "bodyA"]
        /\ result' = Returned(status, "bodyA")
        /\ loc' = [loc EXCEPT !.accepted = ok(status)]
        /\ Pass
    /\ UNCHANGED <<token, seen>>

NextSecurity ==
    \/ AdminOnShop_Login
    \/ Security_AdminLogin
    \/ Security_CreateUserA
    \/ Security_CreateUserB
    \/ Security_LoginA
    \/ Security_CreateCartA
    \/ Security_LoginB
    \/ CrossRead_Access
    \/ CrossModify_GetVariants
    \/ CrossModify_AddItem
    \/ CrossModify_CartCheck
    \/ Security_Cleanup

----------------------------------------------------------------------------
(* The afterAll hooks. The runner starts a suite's hook once the suite's tests are
   over, whatever their outcome. *)

SuiteOf(s) ==
    IF s \in CheckoutTests THEN "checkout" ELSE IF s = "ship" THEN "inventory" ELSE "none"

InHook(suite, p) == SuiteOf(scen) = suite /\ pc = p

HookGoto(p) == pc' = p /\ UNCHANGED <<scen, outcome>>

\* an exception or a failed expect() inside the hook
HookFailed(l) == loc' = [l EXCEPT !.hook = "failed"] /\ HookGoto("aa_done")

HookPassed(l) == loc' = [l EXCEPT !.hook = "passed"] /\ HookGoto("aa_done")

\* where the loop over the created entities goes after a deletion was answered
AfterDeletionUntilFailure(status, more, again, after) ==
    IF more /\ ok(status) THEN again ELSE after

AfterDeletion(status, more, again, after) == IF more THEN again ELSE after

\* `if (!deleteResp.ok() && deleteResp.status() !== 404) console.log(...)`
Warned(l, status, entity) ==
    IF ~ok(status) /\ status # 404
    THEN [l EXCEPT !.warnings = @ \cup {entity}]
    ELSE l

\* check-out.spec.ts afterAll: `if (createdCarts.length > 0)`
AfterAll_Begin ==
    /\ InHook("checkout", "done")
    /\ loc.hook = "none"
    /\ loc' = [loc EXCEPT !.hook = "running", !.next = 1]
    /\ HookGoto(IF Len(loc.createdCarts) > 0 THEN "aa_login" ELSE "aa_user")
    /\ UNCHANGED <<clientVars, seen>>

\* a fresh ShopClient; `if (userEmail)` it logs in, and login_token throws on a failure
AfterAll_Login ==
    /\ InHook("checkout", "aa_login")
    /\ IF loc.userEmail = Undefined
       THEN /\ HookGoto("aa_carts")
            /\ UNCHANGED <<clientVars, loc>>
       ELSE \E status \in Answers("POST"), tok \in {SessionToken("cleanup"), Undefined} :
            /\ ~ok(status) => tok = Undefined
            /\ wire' = Append(wire, Sent("cleanup", loginRequest("cleanup"), status, tok))
            /\ lastResp' = [status |-> status, text |-> "bodyA"]
            /\ IF ~ok(status)
               THEN /\ result' = LoginFailed("cleanup", status, "bodyA")
                    /\ UNCHANGED token
                    /\ HookFailed(loc)
               ELSE /\ token' = [token EXCEPT !["cleanup"] = tok]
                    /\ result' = Void
                    /\ HookGoto("aa_carts")
                    /\ UNCHANGED loc
    /\ UNCHANGED seen

\* one turn of `for (const token of createdCarts)`: delete the cart, log a status
\* that is neither a success nor 404
AfterAll_DeleteCart ==
    /\ InHook("checkout", "aa_carts")
    /\ LET cart == loc.createdCarts[loc.next]
           more == loc.next < Len(loc.createdCarts)
       IN IF ~validateToken(token["cleanup"])
          THEN Refused /\ HookFailed(loc)
          ELSE \E status \in Answers("DELETE") \cup {404} :
               /\ Do("cleanup", delete(token["cleanup"], OrderPath(cart)), status)
               /\ loc' = [Warned(loc, status, cart) EXCEPT !.next = @ + 1]
               /\ HookGoto(AfterDeletion(status, more, "aa_carts", "aa_user"))
    /\ UNCHANGED seen

\* `if (userId)` delete the customer's credentials and expect ok
AfterAll_DeleteUser ==
    /\ InHook("checkout", "aa_user")
    /\ IF loc.userId = Undefined
       THEN HookPassed(loc) /\ UNCHANGED clientVars
       ELSE IF ~validateToken(token["admin"])
       THEN Refused /\ HookFailed(loc)
       ELSE \E status \in Answers("DELETE") \cup {404} :
            /\ Do("admin",
                  delete(token["admin"], <<"/api/v2/admin/customers", loc.userId, "user">>),
                  status)
            /\ IF ok(status) THEN HookPassed(loc) ELSE HookFailed(loc)
    /\ UNCHANGED seen

\* product-inventory.spec.ts afterAll: `for (const code of createdProductCodes)`
Inventory_AfterAll_Begin ==
    /\ InHook("inventory", "done")
    /\ loc.hook = "none"
    /\ IF Len(loc.createdProductCodes) > 0
       THEN loc' = [loc EXCEPT !.hook = "running", !.next = 1] /\ HookGoto("aa_products")
       ELSE HookPassed(loc)
    /\ UNCHANGED <<clientVars, seen>>

\* one turn of the loop: delete the product, log a status that is neither a success
\* nor 404
Inventory_AfterAll_DeleteProduct ==
    /\ InHook("inventory", "aa_products")
    /\ LET code == loc.createdProductCodes[loc.next]
           more == loc.next < Len(loc.createdProductCodes)
       IN IF ~validateToken(token["admin"])
          THEN Refused /\ HookFailed(loc)
          ELSE \E status \in Answers("DELETE") \cup {404} :
               /\ Do("admin", delete(token["admin"], <<"/api/v2/admin/products", code>>),
                     status)
               /\ IF more
                  THEN /\ loc' = [Warned(loc, status, code) EXCEPT !.next = @ + 1]
                       /\ HookGoto(AfterDeletion(status, more, "aa_products", "aa_done"))
                  ELSE HookPassed(Warned(loc, status, code))
    /\ UNCHANGED seen

NextCheckoutHook ==
    \/ AfterAll_Begin
    \/ AfterAll_Login
    \/ AfterAll_DeleteCart
    \/ AfterAll_DeleteUser

NextInventoryHook ==
    \/ Inventory_AfterAll_Begin
    \/ Inventory_AfterAll_DeleteProduct

\* the most entities a suite has created when its hook starts
MaxCreated == 2

CartTokens == <<"T1", "T2", "T3", "T4">>
ProductCodes == <<"P1", "P2", "P3", "P4">>

\* the state in which a suite's afterAll starts: the tests are over, the last one
\* passed or failed, the module-level variables hold what beforeAll and the tests
\* left in them; the requests of the tests are left out of the wire
InitCleanup ==
    /\ wire = <<>>
    /\ result = Void
    /\ lastResp = [status |-> 0, text |-> ""]
    /\ scen \in {"buyNow", "ship"}
    /\ pc = "done"
    /\ outcome \in {"passed", "failed"}
    /\ seen = NothingSeen
    /\ \E admin \in {Null, SessionToken("admin")}, n \in 0 .. MaxCreated, email \in {Undefined, "checkout"},
          id \in {Undefined, "U1"} :
        /\ admin = Null => n = 0 /\ email = Undefined
        /\ email = Undefined => id = Undefined
        /\ scen = "buyNow" /\ id = Undefined => n = 0
        /\ scen = "ship" => email = Undefined
        /\ (scen = "buyNow" /\ outcome = "passed") => n > 0
        /\ token = [c \in Clients |->
                        IF c = "admin" THEN admin
                        ELSE IF c = "shop" /\ n > 0 /\ scen = "buyNow" THEN SessionToken(c)
                        ELSE Null]
        /\ loc = [NoLocals EXCEPT
                    !.userEmail = email,
                    !.userId = id,
                    !.createdCarts = IF scen = "buyNow" THEN SubSeq(CartTokens, 1, n) ELSE <<>>,
                    !.createdProductCodes =
                        IF scen = "ship" THEN SubSeq(ProductCodes, 1, n) ELSE <<>>]

NextCleanup ==
    \/ NextCheckoutHook
    \/ NextInventoryHook

SpecCleanup == InitCleanup /\ [][NextCleanup]_vars

----------------------------------------------------------------------------
(* The scenarios *)

Scenarios ==
    CheckoutTests \cup {"stockDec", "ship", "orderTotal", "stockCap"} \cup PriceTests
        \cup SecuritySuite

FirstStep(s) ==
    CASE s \in CheckoutTests -> "ba_login"
      [] s = "stockDec" -> "sd_adminLogin"
      [] s = "ship" -> "sh_adminLogin"
      [] s = "orderTotal" -> "ot_adminLogin"
      [] s = "stockCap" -> "sc_adminLogin"
      [] s \in PriceTests -> "pt_adminLogin"
      [] s \in SecuritySuite -> "se_adminLogin"

Init ==
    /\ token = [c \in Clients |-> Null]
    /\ wire = <<>>
    /\ result = Void
    /\ lastResp = [status |-> 0, text |-> ""]
    /\ scen \in Scenarios
    /\ pc = FirstStep(scen)
    /\ outcome = "running"
    /\ loc = NoLocals
    /\ seen = NothingSeen

Next ==
    \/ NextCheckout
    \/ NextStockDec
    \/ NextShip
    \/ NextOrderTotal
    \/ NextStockCap
    \/ NextPrice
    \/ NextSecurity
    \/ NextCheckoutHook

Spec == Init /\ [][Next]_vars

----------------------------------------------------------------------------
(* Properties of the clients *)

IsLogin(e, c) == e.client = c /\ e.req = loginRequest(c)

\* the position in the wire of the last successful login of c before position k (0: none)
LastLogin(c, k) ==
    LET S == {i \in 1..(k - 1) : IsLogin(wire[i], c) /\ ok(wire[i].status)}
    IN IF S = {} THEN 0 ELSE CHOOSE i \in S : \A j \in S : j <= i

NeverLoggedIn(c) == LastLogin(c, Len(wire) + 1) = 0

\* this step is a call of get, post, put, patch or delete on client c
VerbCall(c) == Get(c) \/ Post(c) \/ Put(c) \/ Patch(c) \/ Delete(c)

\* this step is a call of login / login_token on client c
LoginStep(c) == Len(wire') = Len(wire) + 1 /\ IsLogin(wire'[Len(wire')], c)

\* C6: on a client whose login has never succeeded, every call of get, post, put,
\* patch or delete raises the 'not authenticated' error and sends no request.
C6_UnauthenticatedCallRaises ==
    [][\A c \in Clients :
        (NeverLoggedIn(c) /\ VerbCall(c))
            => (result' = NotAuthenticated /\ wire' = wire)]_vars

\* a verb call was refused on a client that never logged in, while the other client
\* had logged in and sent a request
C6_Witness ==
    /\ result = NotAuthenticated
    /\ NeverLoggedIn("shop")
    /\ ~NeverLoggedIn("admin")
    /\ Len(wire) = 2

\* C7: login raises an error carrying the response status and body whenever the token
\* endpoint answers with a non-success status, and stores a token only on success.
C7_LoginRaisesOnFailure ==
    [][\A c \in Clients :
        LoginStep(c)
            => /\ ~ok(lastResp'.status)
                    => /\ result'.kind = "throw"
                       /\ result'.status = lastResp'.status
                       /\ result'.text = lastResp'.text
                       /\ token' = token
               /\ ok(lastResp'.status)
                    => /\ result' = Void
                       /\ token'[c] = wire'[Len(wire')].tok]_vars

\* a login was refused with 404 and the client still holds no token
C7_Witness ==
    /\ result = LoginFailed("shop", 404, "bodyB")
    /\ token["shop"] = Null
    /\ Len(wire) = 1

\* C8: a client's token changes only through a successful login, and every request a
\* client sends carries as bearer the token returned by its most recent successful
\* login.
C8_TokenOnlyFromLogin ==
    /\ \A k \in DOMAIN wire :
        \A c \in Clients :
            (wire[k].client = c /\ ~IsLogin(wire[k], c))
                => /\ LastLogin(c, k) # 0
                   /\ wire[k].req.headers.Authorization
                        = <<"Bearer", wire[LastLogin(c, k)].tok>>
    /\ \A c \in Clients :
        token[c] = IF NeverLoggedIn(c) THEN Null
                   ELSE wire[LastLogin(c, Len(wire) + 1)].tok

\* after a re-login that returned another token the request carries the new one
C8_Witness ==
    /\ Len(wire) = 3
    /\ IsLogin(wire[1], "admin") /\ wire[1].tok = "t1"
    /\ IsLogin(wire[2], "admin") /\ wire[2].tok = "t2"
    /\ wire[3].client = "admin" /\ wire[3].req.verb = "GET"
    /\ wire[3].req.headers.Authorization = <<"Bearer", "t2">>

\* C9: each call of get, post, put, patch or delete on an authenticated client sends
\* exactly one request and returns its response whatever the status.
C9_OneRequestPerCall ==
    [][\A c \in Clients :
        (validateToken(token[c]) /\ VerbCall(c))
            => /\ Len(wire') = Len(wire) + 1
               /\ wire'[Len(wire')].status = lastResp'.status
               /\ result' = Returned(lastResp'.status, lastResp'.text)]_vars

\* a call answered 404 was returned to the caller after a single request
C9_Witness ==
    /\ result = Returned(404, "bodyA")
    /\ Len(wire) = 2
    /\ wire[2].status = 404
    /\ wire[2].req.verb = "DELETE"

----------------------------------------------------------------------------
(* Properties of the checkout scenarios *)

\* the business operation a request performs on an order ("other": a read, a login
\* or an admin call)
OpOf(e) ==
    LET r == e.req
        p == r.endpoint
    IN IF e.client # "shop" \/ p[1] # "/api/v2/shop/orders" THEN "other"
       ELSE IF r.verb = "POST" /\ Len(p) = 1 THEN "createCart"
       ELSE IF r.verb = "POST" /\ Len(p) = 3 /\ p[3] = "items" THEN "addItem"
       ELSE IF r.verb \in {"PUT", "PATCH"} /\ Len(p) = 2 THEN "address"
       ELSE IF r.verb = "PATCH" /\ Len(p) = 4 /\ p[3] = "shipments" THEN "selectShipping"
       ELSE IF r.verb = "PATCH" /\ Len(p) = 4 /\ p[3] = "payments" THEN "selectPayment"
       ELSE IF r.verb = "PATCH" /\ Len(p) = 3 /\ p[3] = "complete" THEN "complete"
       ELSE "other"

IsBusiness(e) == OpOf(e) # "other"

BusinessCalls == SelectSeq(wire, IsBusiness)

CheckoutOrder ==
    <<"createCart", "addItem", "address", "selectShipping", "selectPayment", "complete">>

\* C1: in the checkout scenario the calls go out in the order create cart, add item,
\* set address, select shipping method, select payment method, complete order, each
\* only after the previous one was answered with a success.
C1_CheckoutCallOrder ==
    scen = "buyNow" =>
        LET b == BusinessCalls
        IN /\ Len(b) <= Len(CheckoutOrder)
           /\ \A i \in DOMAIN b :
                /\ OpOf(b[i]) = CheckoutOrder[i]
                /\ i < Len(b) => ok(b[i].status)

\* the whole checkout went out, the completion call included
C1_Witness ==
    /\ scen = "buyNow"
    /\ Len(BusinessCalls) = 6
    /\ OpOf(wire[Len(wire)]) = "complete"

\* C2: the checkout scenario passes only if the checkout states read from the
\* responses are 'addressed', 'shipping_selected', 'payment_selected' and
\* 'completed' in turn (with order state 'new' and total > 0): what a passing run
\* observed moves forward one state at a time.
C2_PassObservesProgression ==
    outcome = "passed" =>
        /\ scen = "buyNow" =>
            /\ loc.observed = Tail(CheckoutStates)
            /\ loc.orderState = "new"
            /\ loc.total > 0
        /\ scen = "addrShip" =>
            loc.observed = SubSeq(CheckoutStates, 2, 3)

\* the Buy Now test passed
C2_Witness ==
    /\ scen = "buyNow"
    /\ outcome = "passed"
    /\ Len(loc.observed) = 4

\* C5: the shipment id, the payment id and the method reference a checkout step uses
\* are those of the most recent response that carried them.
C5_IdsFromLatestResponse ==
    [][(Len(wire') > Len(wire) /\ OpOf(wire'[Len(wire')]) # "other") =>
        LET r == wire'[Len(wire')].req
            p == r.endpoint
        IN /\ (Len(p) >= 4 /\ p[3] = "shipments") => p[4] = seen.shipmentId
           /\ (Len(p) >= 4 /\ p[3] = "payments") => p[4] = seen.paymentId
           /\ (r.verb = "PATCH" /\ Len(p) = 4) =>
                \E i \in DOMAIN seen.methods : r.data[Len(r.data)] = seen.methods[i]]_vars

\* the payment was selected after the platform had replaced the payment the address
\* response named
C5_Witness ==
    /\ scen = "buyNow"
    /\ loc.orderData.paymentId = "p1"
    /\ loc.shippingData.paymentId = "p2"
    /\ \E i \in DOMAIN wire :
        /\ OpOf(wire[i]) = "selectPayment"
        /\ wire[i].req.endpoint[4] = "p2"

----------------------------------------------------------------------------
(* Failures and repetitions *)

TransitionOps == {"addItem", "address", "selectShipping", "selectPayment"}

\* the scenarios that end with the completion call
CompletingTests == {"buyNow", "stockDec", "ship"}

\* C3: in a scenario that completes an order, once a transition call (add item, set
\* address, select shipping method, select payment method) was answered with a
\* failure, no later cart or checkout call is issued, the completion call included.
C3_FailedTransitionAborts ==
    scen \in CompletingTests =>
        \A i \in DOMAIN wire, j \in DOMAIN wire :
            (i < j /\ OpOf(wire[i]) \in TransitionOps /\ ~ok(wire[i].status)) =>
                ~IsBusiness(wire[j])

\* the prerequisite calls: a login, the creation of the customer, the variant lookup,
\* the creation of the cart
IsSetup(e) ==
    \/ \E c \in Clients : IsLogin(e, c)
    \/ /\ e.client = "admin"
       /\ e.req.verb = "POST"
       /\ e.req.endpoint = <<"/api/v2/admin/customers">>
    \/ /\ e.client = "admin"
       /\ e.req.verb = "GET"
       /\ e.req.endpoint \in {<<"/api/v2/admin/product-variants">>,
                              <<"/api/v2/admin/product-variants?itemsPerPage=1">>}
    \/ OpOf(e) = "createCart"

\* C4: once a prerequisite call (admin or shop login, customer creation, variant
\* lookup, cart creation) was answered with a failure, no cart or checkout call is
\* issued afterwards.
C4_SetupFailureAborts ==
    \A i \in DOMAIN wire, j \in DOMAIN wire :
        (i < j /\ IsSetup(wire[i]) /\ ~ok(wire[i].status)) => ~IsBusiness(wire[j])

\* an attempt to ship a shipment: PATCH .../ship or PUT of the shipment
IsShipAttempt(e) ==
    /\ e.client = "admin"
    /\ e.req.verb \in {"PATCH", "PUT"}
    /\ e.req.endpoint[1] = "/api/v2/admin/shipments"

IsPoll(e) == e.client = "context"

\* two requests that attempt the same operation
SameOperation(a, b) ==
    /\ a.client = b.client
    /\ \/ a.req = b.req
       \/ IsShipAttempt(a) /\ IsShipAttempt(b) /\ a.req.endpoint[2] = b.req.endpoint[2]

\* C10 as stated: no operation is attempted again after it was answered with a
\* failure, unless the repeated call is a deletion.
C10_NoRepeatAfterFailure ==
    \A i \in DOMAIN wire, j \in DOMAIN wire :
        (i < j /\ ~ok(wire[i].status) /\ SameOperation(wire[i], wire[j])) =>
            wire[j].req.verb = "DELETE"

\* C10, amended: a state-changing call (POST, PUT, PATCH) is issued at most once per
\* scenario, except that the shipping of a shipment is attempted a second time, as
\* the PUT that directly follows a failed PATCH .../ship; and the visibility poll is
\* sent at most MaxAttempts times, each time after the previous one failed.
C10_OnlyDeliberateRepeats ==
    /\ \A i \in DOMAIN wire, j \in DOMAIN wire :
        (i < j /\ wire[i].req.verb \in {"POST", "PUT", "PATCH"}
               /\ SameOperation(wire[i], wire[j])) =>
            /\ IsShipAttempt(wire[i])
            /\ j = i + 1
            /\ wire[i].req.verb = "PATCH"
            /\ ~ok(wire[i].status)
            /\ wire[j].req.verb = "PUT"
    /\ Len(SelectSeq(wire, IsPoll)) <= MaxAttempts
    /\ \A i \in DOMAIN wire, j \in DOMAIN wire :
        (i < j /\ IsPoll(wire[i]) /\ IsPoll(wire[j])) =>
            /\ ~ok(wire[i].status)
            /\ \A k \in i .. j : IsPoll(wire[k])

\* the order was shipped by the PUT after the PATCH had failed
C10_Witness ==
    /\ scen = "ship"
    /\ outcome = "passed"
    /\ \E i \in DOMAIN wire :
        /\ IsShipAttempt(wire[i])
        /\ wire[i].req.verb = "PUT"
        /\ ok(wire[i].status)

\* C11: the stock-cap scenario passes only if the add of more than the stock was
\* rejected with 400 or 422, or was accepted and the line item read back has a
\* quantity of at most the stock; one of the two assertions was evaluated.
C11_PassMeansRejectedOrCapped ==
    (scen = "stockCap" /\ outcome = "passed") =>
        \/ loc.addStatus \in {400, 422} /\ "rejected" \in loc.asserted
        \/ /\ ok(loc.addStatus)
           /\ "capped" \in loc.asserted
           /\ Len(loc.items) > 0
           /\ loc.items[1] <= LimitedStock

\* C12: a scenario that adds a quantity of zero or less passes only if the platform
\* answered the add with 400 or 422.
C12_NonPositiveQuantityRejected ==
    (scen \in {"zeroQty", "negQty"} /\ outcome = "passed") => loc.addStatus \in {400, 422}

\* C13 as stated: the price scenario passes only if the line item read back carries
\* a subtotal equal to unitPrice times the quantity, and a total at least that.
C13_SubtotalExact ==
    (scen = "subtotal" /\ outcome = "passed") =>
        /\ {"unitPrice", "subtotal", "total"} \subseteq loc.item.present
        /\ loc.item.subtotal = loc.item.unitPrice * Quantity
        /\ loc.item.total >= loc.item.subtotal

\* C13, amended: the price scenario passes only if the line item read back has the
\* requested quantity, a unit price and a total of at least unitPrice times the
\* quantity, and, when it carries a subtotal, that subtotal equals unitPrice times
\* the quantity.
C13_SubtotalExactWhenPresent ==
    (scen = "subtotal" /\ outcome = "passed") =>
        /\ loc.item.quantity = Quantity
        /\ {"unitPrice", "total"} \subseteq loc.item.present
        /\ loc.item.total >= loc.item.unitPrice * Quantity
        /\ "subtotal" \in loc.item.present =>
            loc.item.subtotal = loc.item.unitPrice * Quantity

\* the price scenario passed on an item that carries a subtotal and adjustments
C13_Witness ==
    /\ scen = "subtotal"
    /\ outcome = "passed"
    /\ "subtotal" \in loc.item.present
    /\ loc.item.total > loc.item.subtotal

\* C14: the stock scenario passes only if the on-hand stock read after the order of
\* one unit is the initial stock less one, or stock is on hold.
C14_PassMeansDecrementedByOne ==
    (scen = "stockDec" /\ outcome = "passed") =>
        \/ loc.finalStock = InitialStock - 1
        \/ loc.onHold > 0

\* C15: the scenario in which user B reads user A's cart passes only if B's GET was
\* answered with 403 or 404.
C15_CrossReadRefused ==
    (scen = "crossRead" /\ outcome = "passed") =>
        /\ loc.addStatus \in {403, 404}
        /\ \E i \in DOMAIN wire :
            /\ wire[i].client = "shopB"
            /\ wire[i].req.verb = "GET"
            /\ wire[i].req.endpoint = OrderPath(loc.tokenValue)
            /\ wire[i].status = loc.addStatus

\* user B was refused with 403 and the scenario passed
C15_Witness ==
    /\ scen = "crossRead"
    /\ outcome = "passed"
    /\ loc.addStatus = 403

\* C16: the scenario in which user B adds an item to user A's cart passes only after
\* it asserted the refusal (403 or 404) or, on 201, after it checked user A's cart.
C16_NoSilentPass ==
    (scen = "crossModify" /\ outcome = "passed") =>
        \/ loc.addStatus \in {403, 404} /\ "status" \in loc.asserted
        \/ loc.addStatus = 201 /\ {"cartCheck", "status"} \subseteq loc.asserted

----------------------------------------------------------------------------
(* Cleanup *)

\* the scenario and, in the check-out suite, its hook are over
Ended ==
    /\ outcome # "running"
    /\ pc = IF SuiteOf(scen) = "checkout" THEN "aa_done" ELSE "done"

\* the platform accepted the creation of a product, a customer or a cart
CreatedSomething ==
    \E i \in DOMAIN wire :
        /\ wire[i].req.verb = "POST"
        /\ ok(wire[i].status)
        /\ wire[i].req.endpoint \in {<<"/api/v2/admin/products">>,
                                     <<"/api/v2/admin/customers">>,
                                     <<"/api/v2/shop/orders">>}

CleanupReached ==
    \/ loc.hook \in {"passed", "failed"}
    \/ \E i \in DOMAIN wire : wire[i].req.verb = "DELETE"

\* C17: when a scenario that created a product, a customer or a cart is over, passed
\* or failed, its cleanup was reached.
C17_CleanupAlwaysReached ==
    (Ended /\ CreatedSomething) => CleanupReached

\* C18: no afterAll hook ends as failed, whatever the answers to its login and its
\* deletions.
C18_CleanupNeverFails ==
    loc.hook # "failed"

\* the entities the running hook deletes in its loop
CreatedList ==
    IF SuiteOf(scen) = "checkout" THEN loc.createdCarts ELSE loc.createdProductCodes

DeletionOf(entity) ==
    {i \in DOMAIN wire :
        /\ wire[i].req.verb = "DELETE"
        /\ wire[i].req.endpoint \in {OrderPath(entity), <<"/api/v2/admin/products", entity>>}}

\* C19: once the hook is past its loop, if the deletion of the first created entity
\* was sent then the deletion of every created entity was sent, whatever the answers.
C19_DeletionsIndependent ==
    (pc \in {"aa_user", "aa_done"} /\ Len(CreatedList) > 0
        /\ DeletionOf(CreatedList[1]) # {}) =>
        \A k \in DOMAIN CreatedList : DeletionOf(CreatedList[k]) # {}

\* the deletion of the first cart was refused and the second cart's was still sent
C19_Witness ==
    /\ pc = "aa_done"
    /\ Len(loc.createdCarts) >= 2
    /\ \E i \in DeletionOf(loc.createdCarts[1]) : wire[i].status = 422
    /\ DeletionOf(loc.createdCarts[2]) # {}

----------------------------------------------------------------------------
(* Ownership of the session tokens *)

HasBearer(e) == e.req.headers.Authorization[1] = "Bearer"

BearerOf(e) == e.req.headers.Authorization[2]

\* entry j is the login through which the client of entry i obtained the token that
\* entry i carries
ObtainedBy(i, j) ==
    /\ j < i
    /\ IsLogin(wire[j], wire[i].client)
    /\ ok(wire[j].status)
    /\ wire[j].tok = BearerOf(wire[i])

----------------------------------------------------------------------------
(* Suites, their fixture state and their execution mode *)

\* the describe block a scenario belongs to
DescribeOf(s) ==
    IF s \in CheckoutTests THEN "checkout"
    ELSE IF s = "ship" THEN "inventory"
    ELSE IF s \in SecuritySuite THEN "security"
    ELSE IF s \in {"stockDec", "stockCap"} THEN "stock"
    ELSE "price"

\* the variables declared outside the test bodies, which the tests of the suite share
FixtureState(suite) ==
    CASE suite = "checkout" ->
            {"adminClient", "shopClient", "userEmail", "variantCode", "userId", "createdCarts"}
      [] suite = "inventory" -> {"adminClient", "createdProductCodes"}
      [] suite = "security" -> {"adminClient", "userAEmail", "userBEmail"}
      [] OTHER -> {}

\* test.describe.configure({ mode: ... }) of the suite, "default" when there is none
Mode(suite) == IF suite = "security" THEN "serial" ELSE "default"

\* C21: a scenario whose suite shares fixture state runs in a suite configured
\* for serial mode.
C21_SharedStateSerial ==
    (Phase = "test" /\ FixtureState(DescribeOf(scen)) # {}) =>
        Mode(DescribeOf(scen)) = "serial"

----------------------------------------------------------------------------
(* The generators of unique names (lib/data/testData) *)

\* calls of the generators that SpecData records
MaxNames == 2

\* the last value of the millisecond clock
MaxClock == 1

LowerCase == <<"a", "b", "c", "d", "e", "f", "g", "h", "i", "j", "k", "l", "m",
               "n", "o", "p", "q", "r", "s", "t", "u", "v", "w", "x", "y", "z">>
UpperCase == <<"A", "B", "C", "D", "E", "F", "G", "H", "I", "J", "K", "L", "M",
               "N", "O", "P", "Q", "R", "S", "T", "U", "V", "W", "X", "Y", "Z">>

\* strings are sequences of characters while they are computed on
toUpperCase(str) ==
    [i \in DOMAIN str |->
        IF \E k \in DOMAIN LowerCase : LowerCase[k] = str[i]
        THEN UpperCase[CHOOSE k \in DOMAIN LowerCase : LowerCase[k] = str[i]]
        ELSE str[i]]

toLowerCase(str) ==
    [i \in DOMAIN str |->
        IF \E k \in DOMAIN UpperCase : UpperCase[k] = str[i]
        THEN LowerCase[CHOOSE k \in DOMAIN UpperCase : UpperCase[k] = str[i]]
        ELSE str[i]]

\* str.substring(from, to), positions counted from 0
substring(str, from, to) ==
    SubSeq(str, from + 1, IF to < Len(str) THEN to ELSE Len(str))

\* str.replace(/\s+/g, '-'): every run of white space becomes one dash
RECURSIVE replaceSpaces(_)
replaceSpaces(str) ==
    IF str = <<>> THEN <<>>
    ELSE IF Head(str) = " "
         THEN IF Len(str) > 1 /\ str[2] = " "
              THEN replaceSpaces(Tail(str))
              ELSE <<"-">> \o replaceSpaces(Tail(str))
         ELSE <<Head(str)>> \o replaceSpaces(Tail(str))

\* the characters as one string
RECURSIVE Text(_)
Text(str) == IF str = <<>> THEN "" ELSE Head(str) \o Text(Tail(str))

\* Math.random().toString(36): "0." followed by the digits of the draw; a draw of 0
\* (the string "0") leaves nothing after position 2
RandomStrings ==
    { <<"0">>,
      <<"0", ".", "k", "3", "x", "9", "q", "2", "z">>,
      <<"0", ".", "k", "3", "x", "9", "a", "b">> }

\* the prefixes and names the generators are called with
Args == { <<"q", "a">>, <<"H", "a", "t", " ", " ", "x">> }

\* part_003: timestamp and random suffix
generateEmail(prefix, timestamp, random) ==
    Text(prefix) \o "_" \o ToString(timestamp) \o "_" \o Text(substring(random, 2, 8))
        \o "@example.com"

generateProductCode(prefix, timestamp, random) ==
    Text(toUpperCase(prefix \o <<"_", ToString(timestamp), "_">>
                            \o toUpperCase(substring(random, 2, 6))))

generateSlug(name, timestamp, random) ==
    Text(replaceSpaces(toLowerCase(name))) \o "-" \o ToString(timestamp) \o "-"
        \o Text(substring(random, 2, 8))

\* part_004: timestamp only
generateEmailTimestamp(prefix, timestamp) ==
    Text(prefix) \o "_" \o ToString(timestamp) \o "@example.com"

generateProductCodeTimestamp(prefix, timestamp) ==
    Text(toUpperCase(prefix \o <<"_", ToString(timestamp)>>))

generateSlugTimestamp(name, timestamp) ==
    Text(replaceSpaces(toLowerCase(name))) \o "-" \o ToString(timestamp)

InitData ==
    /\ InitClient

\* one call of a generator: its name, its argument and the string it returned
Generated(fn, arg, value) ==
    /\ Len(loc.names) < MaxNames
    /\ loc' = [loc EXCEPT !.names = Append(@, [fn |-> fn, arg |-> Text(arg), value |-> value])]
    /\ UNCHANGED <<clientVars, scen, pc, outcome, seen>>

\* Date.now() moves on by a millisecond
Tick ==
    /\ loc.now < MaxClock
    /\ loc' = [loc EXCEPT !.now = @ + 1]
    /\ UNCHANGED <<clientVars, scen, pc, outcome, seen>>

GenerateEmail ==
    \E prefix \in Args, random \in RandomStrings :
        Generated("generateEmail", prefix, generateEmail(prefix, loc.now, random))

GenerateProductCode ==
    \E prefix \in Args, random \in RandomStrings :
        Generated("generateProductCode", prefix, generateProductCode(prefix, loc.now, random))

GenerateSlug ==
    \E name \in Args, random \in RandomStrings :
        Generated("generateSlug", name, generateSlug(name, loc.now, random))

GenerateEmailTimestamp ==
    \E prefix \in Args :
        Generated("generateEmail", prefix, generateEmailTimestamp(prefix, loc.now))

GenerateProductCodeTimestamp ==
    \E prefix \in Args :
        Generated("generateProductCode", prefix, generateProductCodeTimestamp(prefix, loc.now))

GenerateSlugTimestamp ==
    \E name \in Args :
        Generated("generateSlug", name, generateSlugTimestamp(name, loc.now))

NextData ==
    \/ Tick
    \/ GenerateEmail
    \/ GenerateProductCode
    \/ GenerateSlug
    \/ GenerateEmailTimestamp
    \/ GenerateProductCodeTimestamp
    \/ GenerateSlugTimestamp

SpecData == InitData /\ [][NextData]_vars

\* C22: a generator never returns the same string twice for the same prefix.
C22_NeverSameStringTwice ==
    \A i, j \in DOMAIN loc.names :
        (i < j /\ loc.names[i].fn = loc.names[j].fn /\ loc.names[i].arg = loc.names[j].arg)
            => loc.names[i].value # loc.names[j].value

----------------------------------------------------------------------------
(* Two test files that create a customer, run by two workers at the same time *)

\* 'Create customer' (admin-customer.spec.ts) and 'Admin creates user-> user logs in'
\* (e2e-login.spec.ts), each with the admin client of its own file
Workers == {"adminCustomer", "e2eLogin"}

\* `qauser_${Date.now()}@example.com`
randomemail(timestamp) == "qauser_" \o ToString(timestamp) \o "@example.com"

CustomersEndpoint == <<"/api/v2/admin/customers">>

InitNames ==
    /\ token = [w \in Workers |-> Null]
    /\ wire = <<>>
    /\ result = Void
    /\ lastResp = [status |-> 0, text |-> ""]
    /\ scen = "none"
    /\ pc = "idle"
    /\ outcome = "running"
    /\ loc = [NoLocals EXCEPT !.at = [w \in Workers |-> "beforeAll"]]
    /\ seen = NothingSeen

WorkerGoto(w, p) == loc' = [loc EXCEPT !.at[w] = p]

\* test.beforeAll: the file's admin client logs in; the test does not run when it throws
Names_BeforeAll(w) ==
    /\ loc.at[w] = "beforeAll"
    /\ \E status \in Answers("POST"), tok \in {SessionToken(w), Undefined} :
        /\ ~ok(status) => tok = Undefined
        /\ wire' = Append(wire, Sent(w, loginRequest("admin"), status, tok))
        /\ lastResp' = [status |-> status, text |-> "bodyA"]
        /\ IF ~ok(status)
           THEN /\ result' = LoginFailed("admin", status, "bodyA")
                /\ UNCHANGED token
                /\ WorkerGoto(w, "failed")
           ELSE /\ token' = [token EXCEPT ![w] = tok]
                /\ result' = Void
                /\ WorkerGoto(w, "create")
    /\ UNCHANGED <<scen, pc, outcome, seen>>

\* the test body: build the email from the clock, post the customer, expect 201 (and,
\* in 'Create customer', the email and first name echoed in the answer)
Names_Create(w) ==
    /\ loc.at[w] = "create"
    /\ IF ~validateToken(token[w])
       THEN /\ result' = NotAuthenticated
            /\ WorkerGoto(w, "failed")
            /\ UNCHANGED <<wire, lastResp>>
       ELSE \E status \in Answers("POST"), echoed \in BOOLEAN :
            /\ wire' = Append(wire, Sent(w, post(token[w], CustomersEndpoint,
                                                 <<"customer", randomemail(loc.now)>>),
                                         status, Undefined))
            /\ lastResp' = [status |-> status, text |-> "bodyA"]
            /\ result' = Returned(status, "bodyA")
            /\ WorkerGoto(w, IF toBe(status, 201) /\ (w = "adminCustomer" => echoed)
                             THEN "passed" ELSE "failed")
    /\ UNCHANGED <<token, scen, pc, outcome, seen>>

NextNames ==
    \/ Tick
    \/ \E w \in Workers : Names_BeforeAll(w)
    \/ \E w \in Workers : Names_Create(w)

SpecNames == InitNames /\ [][NextNames]_vars

IsCustomerPost(e) == e.req.verb = "POST" /\ e.req.endpoint = CustomersEndpoint

\* C23: two scenarios that run at the same time never submit the same customer email.
C23_ConcurrentNamesDiffer ==
    \A i, j \in DOMAIN wire :
        (/\ i < j
         /\ IsCustomerPost(wire[i])
         /\ IsCustomerPost(wire[j])
         /\ wire[i].client # wire[j].client)
            => wire[i].req.data # wire[j].req.data

----------------------------------------------------------------------------
(* Selection of the payment method *)

\* the request selects the method of a payment
IsSelectPayment(r) ==
    r.verb = "PATCH" /\ Len(r.endpoint) = 4 /\ r.endpoint[3] = "payments"

\* C24: a scenario that selects a payment method picks cash_on_delivery whenever the
\* fetched list holds it and the first method of the list otherwise, and never a
\* method that is not in the list.
C24_PreferredPaymentMethod ==
    [][(Len(wire') > Len(wire) /\ IsSelectPayment(wire'[Len(wire')].req)) =>
        LET chosen == wire'[Len(wire')].req.data[2]
            listed == {seen.methods[i] : i \in DOMAIN seen.methods}
        IN /\ chosen \in listed
           /\ chosen = IF "cash_on_delivery" \in listed
                       THEN "cash_on_delivery"
                       ELSE seen.methods[1]]_vars

----------------------------------------------------------------------------
(* The request contract of the two role clients, in both generations of the code:
   derived from BaseApiClient, and standalone *)

Variants == {"derived", "standalone"}

Roles == {"admin", "shop"}

Verbs == {"GET", "POST", "PUT", "PATCH", "DELETE"}

\* the verb wrappers a client class defines
VerbsOf(variant, role) ==
    IF variant = "standalone" /\ role = "admin" THEN {"GET", "POST", "DELETE"} ELSE Verbs

\* a message that depends on the role in both generations
validateTokenMessageByRole(variant, role) ==
    IF role = "shop" THEN "No shop token" ELSE "Not authenticated. Please login first."

\* the message of the error validateToken() throws
validateTokenMessage(variant, role) ==
    IF variant = "standalone" /\ role = "shop"
    THEN "No shop token"
    ELSE "Not authenticated. Please login first."

\* the request a verb wrapper hands to the request context
RequestOf(variant, role, verb, tok, endpoint, data) ==
    CASE verb = "GET" -> get(tok, endpoint)
      [] verb = "POST" -> post(tok, endpoint, data)
      [] verb = "PUT" -> put(tok, endpoint, data)
      [] verb = "PATCH" -> patch(tok, endpoint, data)
      [] OTHER ->
            IF variant = "standalone" /\ role = "admin"
            THEN [verb |-> "DELETE", endpoint |-> endpoint,
                  headers |-> getHeaders(tok, TRUE), data |-> NoData]
            ELSE delete(tok, endpoint)

NoRequest == [verb |-> "none", endpoint |-> <<>>,
              headers |-> [Authorization |-> <<"none", Null>>, Accept |-> "none",
                           ContentType |-> "none"],
              data |-> NoData]

\* what one call of a verb wrapper does: a TypeError when the class has no such
\* method, the validateToken() error, or one outbound request
CallOf(variant, role, verb, tok, endpoint, data) ==
    IF verb \notin VerbsOf(variant, role)
    THEN [kind |-> "throw", msg |-> "is not a function", req |-> NoRequest]
    ELSE IF ~validateToken(tok)
    THEN [kind |-> "throw", msg |-> validateTokenMessage(variant, role), req |-> NoRequest]
    ELSE [kind |-> "sent", msg |-> "",
          req |-> RequestOf(variant, role, verb, tok, endpoint, data)]

InitContract ==
    /\ token = [c \in Clients |-> Null]
    /\ wire = <<>>
    /\ result = Void
    /\ lastResp = [status |-> 0, text |-> ""]
    /\ scen = "none"
    /\ pc = "idle"
    /\ outcome = "running"
    /\ \E v \in Variants : loc = [NoLocals EXCEPT !.variant = v]
    /\ seen = NothingSeen

\* the logins and verb calls made so far
ContractSteps ==
    Len(loc.calls)
        + Cardinality({i \in DOMAIN wire : wire[i].req.endpoint = tokenEndpoint(wire[i].client)})

\* login() / login_token(): the token request, the check of response.ok(), the store
Contract_Login(role) ==
    /\ ContractSteps < MaxCalls
    /\ \E status \in Statuses, tok \in Tokens \cup {Undefined} :
        /\ ~ok(status) => tok = Undefined
        /\ wire' = Append(wire, Sent(role, loginRequest(role), status, tok))
        /\ lastResp' = [status |-> status, text |-> "bodyA"]
        /\ IF ~ok(status)
           THEN /\ result' = [LoginFailed(role, status, "bodyA") EXCEPT
                                !.msg = IF loc.variant = "standalone" /\ role = "admin"
                                        THEN "Failed to login" ELSE @]
                /\ UNCHANGED token
           ELSE /\ token' = [token EXCEPT ![role] = tok]
                /\ result' = Void
    /\ UNCHANGED scenVars

\* the same verb call, with the same arguments, on the admin and on the shop client
Contract_Call(verb) ==
    /\ ContractSteps < MaxCalls
    /\ \E endpoint \in Endpoints, data \in Bodies, status \in Statuses :
        LET a == CallOf(loc.variant, "admin", verb, token["admin"], endpoint, data)
            b == CallOf(loc.variant, "shop", verb, token["shop"], endpoint, data)
            sentA == IF a.kind = "sent" THEN <<Sent("admin", a.req, status, Undefined)>> ELSE <<>>
            sentB == IF b.kind = "sent" THEN <<Sent("shop", b.req, status, Undefined)>> ELSE <<>>
        IN /\ wire' = wire \o sentA \o sentB
           /\ lastResp' = IF a.kind = "sent" \/ b.kind = "sent"
                          THEN [status |-> status, text |-> "bodyA"] ELSE lastResp
           /\ result' = IF b.kind = "sent" THEN Returned(status, "bodyA")
                        ELSE [kind |-> "throw", msg |-> b.msg, status |-> 0, text |-> ""]
           /\ loc' = [loc EXCEPT !.calls =
                        Append(@, [verb |-> verb, admin |-> a, shop |-> b,
                                   adminToken |-> token["admin"],
                                   shopToken |-> token["shop"]])]
    /\ UNCHANGED <<token, scen, pc, outcome, seen>>

NextContract ==
    \/ \E role \in Roles : Contract_Login(role)
    \/ \E verb \in Verbs : Contract_Call(verb)

SpecContract == InitContract /\ [][NextContract]_vars

----------------------------------------------------------------------------
\* C26: 'Admin credentials dont work on shop API' passes only if the shop token
\* endpoint rejected the administrator's credentials.
C26_PassMeansAdminRejected ==
    (scen = "adminOnShop" /\ outcome = "passed") =>
        /\ ~loc.accepted
        /\ ~ok(wire[Len(wire)].status)

----------------------------------------------------------------------------
\* C27: the order-total scenario passes only if the order total is greater than 0,
\* is at least itemsTotal, and differs by at most 1 from itemsTotal + shippingTotal +
\* orderPromotionTotal or from that sum plus taxTotal.
C27_PassMeansConsistentTotal ==
    (scen = "orderTotal" /\ outcome = "passed") =>
        LET o == loc.finalOrder
            sum == o.itemsTotal + o.shippingTotal + o.orderPromotionTotal
        IN /\ o.total > 0
           /\ o.total >= o.itemsTotal
           /\ \/ o.total - sum \in -1 .. 1
              \/ o.total - (sum + o.taxTotal) \in -1 .. 1

\* the scenario passed on an order whose total matches only the sum with the tax
C27_Witness ==
    /\ scen = "orderTotal"
    /\ outcome = "passed"
    /\ loc.finalOrder.taxTotal = 10
    /\ loc.finalOrder.total = 160

----------------------------------------------------------------------------
\* C28: a login that fails leaves the token of the client, and of every other
\* client, exactly as it was before the call.
C28_FailedLoginKeepsToken ==
    [][\A c \in Clients :
        (/\ Len(wire') = Len(wire) + 1
         /\ IsLogin(wire'[Len(wire')], c)
         /\ ~ok(wire'[Len(wire')].status))
            => /\ token' = token
               /\ result'.kind = "throw"]_vars

\* a client that holds a token logged in again and was refused: it still holds the
\* token; another client that never logged in was refused and holds none
C28_Witness ==
    /\ Len(wire) >= 2
    /\ \E c \in Clients :
        /\ IsLogin(wire[Len(wire)], c)
        /\ ~ok(wire[Len(wire)].status)
        /\ token[c] = "t1"
    /\ \E c \in Clients : token[c] = Null

----------------------------------------------------------------------------
\* the create-cart calls that were answered with a success
CartsCreated ==
    {i \in DOMAIN wire :
        /\ wire[i].req.verb = "POST"
        /\ wire[i].req.endpoint = <<"/api/v2/shop/orders">>
        /\ ok(wire[i].status)}

\* C29: in the checkout suite every cart a successful create-cart call returned is
\* in the created-carts list from the next step on, and once teardown has ended a
\* delete request has been sent for every cart of the list.
C29_TeardownDeletesEveryCart ==
    SuiteOf(scen) = "checkout" =>
        /\ CartsCreated # {} => Len(loc.createdCarts) = Cardinality(CartsCreated)
        /\ loc.hook \in {"passed", "failed"} =>
            \A k \in DOMAIN loc.createdCarts :
                \E i \in DOMAIN wire :
                    /\ wire[i].req.verb = "DELETE"
                    /\ wire[i].req.endpoint = OrderPath(loc.createdCarts[k])

----------------------------------------------------------------------------
(* The stock-decrement scenario on its own, its polling loop always getting its turn:
   the runner executes the test function statement after statement *)

InitPoll == Init /\ scen = "stockDec"

SpecPoll == InitPoll /\ [][NextStockDec]_vars /\ WF_vars(StockDec_Poll)

Polls == {i \in DOMAIN wire : IsPoll(wire[i])}

\* C30: the polling loop sends at most 5 requests and none after the first success;
\* when none of the 5 succeeds the scenario has failed without a customer or a cart
\* being created; and the loop is always left.
C30_PollingTerminates ==
    /\ [](/\ Cardinality(Polls) <= MaxAttempts
          /\ \A i, j \in Polls : ok(wire[i].status) => j <= i
          /\ (Cardinality(Polls) = MaxAttempts /\ \A i \in Polls : ~ok(wire[i].status)) =>
                /\ outcome = "failed"
                /\ \A i \in DOMAIN wire :
                    wire[i].req.endpoint \notin {<<"/api/v2/admin/customers">>,
                                                 <<"/api/v2/shop/orders">>})
    /\ (pc = "sd_poll") ~> (pc # "sd_poll")

\* five requests were sent, none succeeded, and the scenario is over
C30_Witness ==
    /\ scen = "stockDec"
    /\ Cardinality(Polls) = MaxAttempts
    /\ \A i \in Polls : ~ok(wire[i].status)
    /\ pc = "done"

====
